---------------------------- MODULE Spec2Model ----------------------------
(***************************************************************************)
(* Model of the Nuitka packaging front-end (src/main.py): the form state   *)
(* of MainInterface, the command builder, the configuration save / load,   *)
(* and the PackageThread worker driven by LogInterface.                    *)
(*                                                                         *)
(* Text is modelled as a sequence of tokens.  A character typed by the     *)
(* user is a one-character string; a literal of the source (a flag such as *)
(* '--standalone') is one token.  Python's str operations (strip, split,   *)
(* replace, join, in) are modelled on these sequences.                     *)
(*                                                                         *)
(* Labels of the source that are not ASCII are written as follows:         *)
(*   compilerCombo items: "auto" (auto detect), "MSVC", "MinGW64",         *)
(*                        "Clang", "localGCC" (local GCC)                  *)
(*   asset type column:   "File" / "Folder"  (the Chinese labels)          *)
(***************************************************************************)
EXTENDS Integers, Sequences, FiniteSets, TLC

\* ------------------------------------------------------------------ bounds
\* Number of operations that change the form or the configuration file
\* (an edit, a save, a load) explored from the start-up form.
MaxOps == 3
\* Number of PackageThread objects created in one behaviour.
MaxRuns == 2
\* Number of lines the children of the live threads write on their stdout.
MaxLines == 2
\* Number of clicks on the stop button that reach the live threads.
MaxStops == 1

\* ------------------------------------------------------ Python str helpers
Range(s) == {s[i] : i \in DOMAIN s}

IsSpace(c) == c \in {" ", "\n"}

RECURSIVE LStrip(_)
\* str.lstrip(): drop leading whitespace
LStrip(s) == IF s # <<>> /\ IsSpace(Head(s)) THEN LStrip(Tail(s)) ELSE s

RECURSIVE RStrip(_)
\* str.rstrip(): drop trailing whitespace
RStrip(s) ==
  IF s # <<>> /\ IsSpace(s[Len(s)]) THEN RStrip(SubSeq(s, 1, Len(s) - 1)) ELSE s

\* str.strip()
Strip(s) == RStrip(LStrip(s))

RECURSIVE SplitAcc(_, _, _)
SplitAcc(s, sep, cur) ==
  IF s = <<>> THEN <<cur>>
  ELSE IF Head(s) = sep THEN <<cur>> \o SplitAcc(Tail(s), sep, <<>>)
  ELSE SplitAcc(Tail(s), sep, Append(cur, Head(s)))

\* str.split(sep): always at least one piece, empty pieces kept
Split(s, sep) == SplitAcc(s, sep, <<>>)

\* str.replace(c, ''): every occurrence of the character c removed
RemoveChar(s, c) == SelectSeq(s, LAMBDA x : x # c)

RECURSIVE Join(_, _)
\* sep.join(parts)
Join(parts, sep) ==
  IF parts = <<>> THEN <<>>
  ELSE IF Len(parts) = 1 THEN parts[1]
  ELSE parts[1] \o sep \o Join(Tail(parts), sep)

\* [f(x) for x in xs if p(x)]
MapSeq(xs, F(_)) == [i \in DOMAIN xs |-> F(xs[i])]

RECURSIVE Flatten(_)
\* concatenation of a sequence of sequences
Flatten(ss) == IF ss = <<>> THEN <<>> ELSE Head(ss) \o Flatten(Tail(ss))

\* index of the last occurrence of c in s, 0 when there is none (str.rfind + 1)
LastIndexOf(s, c) ==
  LET I == {i \in DOMAIN s : s[i] = c} IN
  IF I = {} THEN 0 ELSE CHOOSE i \in I : \A j \in I : j <= i

\* os.path.basename (posixpath): what follows the last '/'
Basename(p) == SubSeq(p, LastIndexOf(p, "/") + 1, Len(p))

RECURSIVE RStripSlash(_)
RStripSlash(s) ==
  IF s # <<>> /\ s[Len(s)] = "/" THEN RStripSlash(SubSeq(s, 1, Len(s) - 1)) ELSE s

\* os.path.dirname (posixpath): the head up to the last '/', trailing slashes
\* dropped unless the head is made of slashes only
Dirname(p) ==
  LET head == SubSeq(p, 1, LastIndexOf(p, "/")) IN
  IF head # <<>> /\ Range(head) # {"/"} THEN RStripSlash(head) ELSE head


\* ------------------------------------------------------------- form state
VARIABLES
  form,          \* the values of all configuration widgets of MainInterface
  ops,           \* how many edits, saves and loads were performed
  infoBar,       \* the InfoBar shown last (NoBar: none yet)
  escaped,       \* an exception left a handler of the interface thread
  dialog,        \* content of the command preview Dialog shown last
  configFile,    \* content of the configuration file written last
  packageThread, \* LogInterface.packageThread: id of the thread, 0 for None
  threads,       \* the PackageThread objects created so far, by id
  queue,         \* signals posted to the interface thread, oldest first
  logEdit,       \* LogInterface.logEdit: the entries of the log view
  progressBar,   \* LogInterface.progressBar.value()
  stopButton     \* LogInterface.stopButton.isEnabled()

formVars == <<form, ops>>
uiVars == <<infoBar, escaped, dialog, configFile>>
runVars == <<packageThread, threads, queue, logEdit, progressBar, stopButton>>
vars == <<form, ops, infoBar, escaped, dialog, configFile,
          packageThread, threads, queue, logEdit, progressBar, stopButton>>

\* PluginsInterface.plugins, in the insertion order of the dict
PluginNames ==
  <<"pyqt5", "pyside2", "pyside6", "numpy", "torch", "tensorflow",
    "matplotlib", "tk-inter">>

\* CompileOptionsInterface.compilerCombo items
CompilerItems == {"auto", "MSVC", "MinGW64", "Clang", "localGCC"}

\* The switches (SwitchButton) of the form
SwitchFields ==
  {"autoDownloadSwitch", "consoleSwitch", "progressSwitch", "memorySwitch",
   "removeSwitch", "ccacheSwitch", "lowMemorySwitch", "ltoSwitch",
   "followImportsSwitch", "uacSwitch"}

\* The state of the widgets after MainInterface.setupUI
DefaultForm ==
  [ pythonEdit          |-> <<>>,
    fileEdit            |-> <<>>,
    standaloneRadio     |-> TRUE,
    outputDirEdit       |-> <<>>,
    nameEdit            |-> <<>>,
    iconEdit            |-> <<>>,
    compilerCombo       |-> "auto",
    gccPathEdit         |-> <<>>,
    autoDownloadSwitch  |-> TRUE,
    consoleSwitch       |-> TRUE,
    progressSwitch      |-> TRUE,
    memorySwitch        |-> TRUE,
    removeSwitch        |-> TRUE,
    ccacheSwitch        |-> FALSE,
    lowMemorySwitch     |-> FALSE,
    ltoSwitch           |-> FALSE,
    plugins             |-> [n \in Range(PluginNames) |-> FALSE],
    customEdit          |-> <<>>,
    followImportsSwitch |-> TRUE,
    includeEdit         |-> <<>>,
    excludeEdit         |-> <<>>,
    dataEdit            |-> <<>>,
    assetsTable         |-> <<>>,
    companyEdit         |-> <<>>,
    productEdit         |-> <<>>,
    versionEdit         |-> <<>>,
    descEdit            |-> <<>>,
    uacSwitch           |-> FALSE,
    extraEdit           |-> <<>> ]

\* The texts a user enters in each text widget (the inputs explored)
TextValues ==
  [ pythonEdit    |-> {<<>>, <<"p">>},
    fileEdit      |-> {<<>>, <<"d", "/", "s">>, <<"s">>},
    outputDirEdit |-> {<<>>, <<"o", " ", "x">>},
    nameEdit      |-> {<<>>, <<"n">>},
    iconEdit      |-> {<<>>, <<"i">>},
    gccPathEdit   |-> {<<>>, <<"g">>},
    customEdit    |-> {<<>>, <<" ">>, <<"a", "\n", "\n", " ", "b">>},
    includeEdit   |-> {<<>>, <<" ">>, <<"m", ",", " ", "k">>},
    excludeEdit   |-> {<<>>, <<"x">>, <<"x", ",", " ", "y", ",">>},
    dataEdit      |-> {<<>>, <<"\n">>, <<"a", "=", "b", "\n", "c">>},
    companyEdit   |-> {<<>>, <<"c">>},
    productEdit   |-> {<<>>, <<"r">>},
    versionEdit   |-> {<<>>, <<"1">>},
    descEdit      |-> {<<>>, <<"e">>},
    extraEdit     |-> {<<>>, <<"--lto=yes", "\n", " ", "\n", "-z">>} ]

TextFields == DOMAIN TextValues

\* ---------------------------------------------------------- asset table
\* AssetsInterface.getAssets: the rows as saved, type label -> 'file'/'folder'
getAssets(table) ==
  [ i \in DOMAIN table |->
      [ enabled |-> table[i].enabled,
        source  |-> table[i].source,
        target  |-> table[i].target,
        type    |-> IF table[i].type_text = "File" THEN "file" ELSE "folder" ] ]

\* ------------------------------------------------------------ buildCommand
\* cmd_parts = [python_path, '-m', 'nuitka']
PrefixParts(f) ==
  << (IF f.pythonEdit # <<>> THEN f.pythonEdit ELSE <<"python">>),
     <<"-m">>, <<"nuitka">> >>

ModeParts(f) ==
  IF f.standaloneRadio THEN << <<"--standalone">> >> ELSE << <<"--onefile">> >>

AutoDownloadParts(f) ==
  IF f.autoDownloadSwitch THEN << <<"--assume-yes-for-downloads">> >> ELSE <<>>

CompilerParts(f) ==
  IF f.compilerCombo = "MinGW64" THEN << <<"--mingw64">> >>
  ELSE IF f.compilerCombo = "Clang" THEN << <<"--clang">> >>
  ELSE IF f.compilerCombo = "MSVC" THEN << <<"--msvc=latest">> >>
  ELSE <<>>

\* ConsoleParts with the flag added when the switch is on
ConsolePartsWhenOn(f) ==
  IF f.consoleSwitch THEN << <<"--windows-disable-console">> >> ELSE <<>>

ConsoleParts(f) ==
  IF ~f.consoleSwitch THEN << <<"--windows-disable-console">> >> ELSE <<>>

DisplayParts(f) ==
  (IF f.progressSwitch THEN << <<"--show-progress">> >> ELSE <<>>)
  \o (IF f.memorySwitch THEN << <<"--show-memory">> >> ELSE <<>>)
  \o (IF f.removeSwitch THEN << <<"--remove-output">> >> ELSE <<>>)

\* OptimizeParts with --lto=yes left out when low memory mode is on
OptimizePartsExclusive(f) ==
  (IF f.lowMemorySwitch THEN << <<"--low-memory">> >> ELSE <<>>)
  \o (IF f.ltoSwitch /\ ~f.lowMemorySwitch THEN << <<"--lto=yes">> >> ELSE <<>>)

OptimizeParts(f) ==
  (IF f.lowMemorySwitch THEN << <<"--low-memory">> >> ELSE <<>>)
  \o (IF f.ltoSwitch THEN << <<"--lto=yes">> >> ELSE <<>>)

\* f'{flag}{text}' appended when the text is non-empty
ValueFlag(flag, text) == IF text # <<>> THEN << <<flag>> \o text >> ELSE <<>>

OutputParts(f) ==
  ValueFlag("--output-dir=", f.outputDirEdit)
  \o ValueFlag("--output-filename=", f.nameEdit)
  \o ValueFlag("--windows-icon-from-ico=", f.iconEdit)

\* enabled_plugins, in dict order
EnabledPlugins(f) ==
  MapSeq(SelectSeq(PluginNames, LAMBDA n : f.plugins[n]), LAMBDA n : <<n>>)

PluginParts(f) ==
  IF EnabledPlugins(f) # <<>>
  THEN << <<"--enable-plugin=">> \o Join(EnabledPlugins(f), <<",">>) >>
  ELSE <<>>

\* [x.strip() for x in text.split('\n') if x.strip()]
StrippedLines(text) ==
  SelectSeq(MapSeq(Split(text, "\n"), Strip), LAMBDA l : l # <<>>)

CustomPluginParts(f) ==
  LET custom_text == Strip(f.customEdit)
      custom_plugins == StrippedLines(custom_text) IN
  IF custom_text # <<>> /\ custom_plugins # <<>>
  THEN << <<"--enable-plugin=">> \o Join(custom_plugins, <<",">>) >>
  ELSE <<>>

\* FollowParts with the include field taken as typed, blanks kept
FollowPartsAsTyped(f) ==
  IF f.followImportsSwitch
  THEN IF f.includeEdit # <<>>
       THEN << <<"--follow-import-to=">> \o f.includeEdit >>
       ELSE << <<"--follow-imports">> >>
  ELSE << <<"--nofollow-imports">> >>

FollowParts(f) ==
  IF f.followImportsSwitch
  THEN IF f.includeEdit # <<>>
       THEN << <<"--follow-import-to=">> \o RemoveChar(f.includeEdit, " ") >>
       ELSE << <<"--follow-imports">> >>
  ELSE << <<"--nofollow-imports">> >>

ExcludeParts(f) ==
  IF f.excludeEdit # <<>>
  THEN MapSeq(Split(f.excludeEdit, ","),
              LAMBDA e : <<"--nofollow-import-to=">> \o Strip(e))
  ELSE <<>>

DataParts(f) ==
  LET data_text == Strip(f.dataEdit) IN
  IF data_text # <<>>
  THEN MapSeq(StrippedLines(data_text),
              LAMBDA l : IF "=" \in Range(l)
                         THEN <<"--include-data-files=">> \o l
                         ELSE <<"--include-data-dir=">> \o l)
  ELSE <<>>

AssetFragment(a) ==
  IF a.type = "file"
  THEN << <<"--include-data-files=">> \o a.source \o <<"=">> \o a.target >>
  ELSE IF a.type = "folder"
  THEN << <<"--include-data-dir=">> \o a.source \o <<"=">> \o a.target >>
  ELSE <<>>

\* AssetParts with the include box of the rows not looked at
AssetPartsOfAllRows(f) ==
  Flatten(MapSeq(getAssets(f.assetsTable), AssetFragment))

AssetParts(f) ==
  Flatten(MapSeq(getAssets(f.assetsTable),
                 LAMBDA a : IF a.enabled THEN AssetFragment(a) ELSE <<>>))

WindowsParts(f) ==
  ValueFlag("--windows-company-name=", f.companyEdit)
  \o ValueFlag("--windows-product-name=", f.productEdit)
  \o ValueFlag("--windows-file-version=", f.versionEdit)
  \o ValueFlag("--windows-file-description=", f.descEdit)
  \o (IF f.uacSwitch THEN << <<"--windows-uac-admin">> >> ELSE <<>>)

\* ExtraParts with the lines of the field taken as they are
ExtraPartsAsTyped(f) == Split(f.extraEdit, "\n")

ExtraParts(f) ==
  LET extra_text == Strip(f.extraEdit) IN
  IF extra_text # <<>> THEN StrippedLines(extra_text) ELSE <<>>

\* cmd_parts of buildCommand, just before the join
CmdParts(f) ==
  PrefixParts(f) \o ModeParts(f) \o AutoDownloadParts(f) \o CompilerParts(f)
  \o ConsoleParts(f) \o DisplayParts(f) \o OptimizeParts(f) \o OutputParts(f)
  \o PluginParts(f) \o CustomPluginParts(f) \o FollowParts(f)
  \o ExcludeParts(f) \o DataParts(f) \o AssetParts(f) \o WindowsParts(f)
  \o ExtraParts(f) \o << f.fileEdit >>

\* buildCommand without the test of the script path
buildCommandUnchecked(f) ==
  [isNone |-> FALSE, text |-> Join(CmdParts(f), <<" ">>)]

\* MainInterface.buildCommand: None (after the error InfoBar) for an empty
\* script path, ' '.join(cmd_parts) otherwise
buildCommand(f) ==
  IF f.fileEdit = <<>>
  THEN [isNone |-> TRUE, text |-> <<>>]
  ELSE [isNone |-> FALSE, text |-> Join(CmdParts(f), <<" ">>)]

\* `if command:` - None and the empty string are both false
Truthy(command) == ~command.isNone /\ command.text # <<>>

\* MainInterface.findCCache: probes the file system; found or not
CCachePath == <<"ccache">>

\* getEnvironment with CC set from the GCC path whatever the compiler chosen
getEnvironmentOfPath(f, ccacheFound) ==
  [ CC     |-> f.gccPathEdit,
    CCACHE |-> IF f.ccacheSwitch /\ ccacheFound THEN <<"ccache">> ELSE <<>> ]

\* MainInterface.getEnvironment, ccacheFound the outcome of findCCache
getEnvironment(f, ccacheFound) ==
  [ CC     |-> IF f.compilerCombo = "localGCC" /\ f.gccPathEdit # <<>>
               THEN f.gccPathEdit ELSE <<>>,
    CCACHE |-> IF f.ccacheSwitch /\ ccacheFound THEN CCachePath ELSE <<>> ]

\* ------------------------------------------------- configuration save/load
\* dict.get(key, default)
Get(d, k, default) == IF k \in DOMAIN d THEN d[k] ELSE default

\* The empty JSON object {}
EmptyDict == [k \in {} |-> <<>>]

\* MainInterface.getConfig
getConfig(f) ==
  [ python  |-> f.pythonEdit,
    basic   |-> [ file |-> f.fileEdit,
                  mode |-> IF f.standaloneRadio THEN "standalone" ELSE "onefile" ],
    output  |-> [ dir  |-> f.outputDirEdit,
                  name |-> f.nameEdit,
                  icon |-> f.iconEdit ],
    compile |-> [ compiler      |-> f.compilerCombo,
                  gcc_path      |-> f.gccPathEdit,
                  auto_download |-> f.autoDownloadSwitch,
                  console       |-> f.consoleSwitch,
                  progress      |-> f.progressSwitch,
                  memory        |-> f.memorySwitch,
                  remove        |-> f.removeSwitch ],
    optimize |-> [ ccache     |-> f.ccacheSwitch,
                   low_memory |-> f.lowMemorySwitch,
                   lto        |-> f.ltoSwitch ],
    plugins  |-> [n \in Range(PluginNames) |-> f.plugins[n]],
    custom_plugins |-> f.customEdit,
    modules  |-> [ follow_imports |-> f.followImportsSwitch,
                   include        |-> f.includeEdit,
                   exclude        |-> f.excludeEdit,
                   data           |-> f.dataEdit ],
    assets   |-> getAssets(f.assetsTable),
    windows  |-> [ company     |-> f.companyEdit,
                   product     |-> f.productEdit,
                   version     |-> f.versionEdit,
                   description |-> f.descEdit,
                   uac         |-> f.uacSwitch ],
    advanced |-> [ extra |-> f.extraEdit ] ]

\* setAssetRow filling the row as addAsset does: included, default target
setAssetRowAsAdded(asset) ==
  LET source == Get(asset, "source", <<>>) IN
  [ enabled   |-> TRUE,
    source    |-> source,
    target    |-> Basename(source),
    type_text |-> IF Get(asset, "type", "file") = "file" THEN "File" ELSE "Folder" ]

\* One row of AssetsInterface.setAssets
setAssetRow(asset) ==
  LET source == Get(asset, "source", <<>>) IN
  [ enabled   |-> Get(asset, "enabled", TRUE),
    source    |-> source,
    target    |-> Get(asset, "target", Basename(source)),
    type_text |-> IF Get(asset, "type", "file") = "file" THEN "File" ELSE "Folder" ]

\* AssetsInterface.setAssets: the table cleared, then one row per asset that
\* has a non-empty source
setAssets(assets) ==
  MapSeq(SelectSeq(assets, LAMBDA a : Get(a, "source", <<>>) # <<>>), setAssetRow)

\* setCurrentText given a text that is no item of the ComboBox
setCurrentTextNoItem(current, text) == current

\* ComboBox.setCurrentText: the current item changes only to an existing item
setCurrentText(current, text) == IF text \in CompilerItems THEN text ELSE current

\* MainInterface.setConfig applied to the form f
setConfig(f, config) ==
  LET basic       == Get(config, "basic", EmptyDict)
      output      == Get(config, "output", EmptyDict)
      compile_opt == Get(config, "compile", EmptyDict)
      optimize    == Get(config, "optimize", EmptyDict)
      plugins     == Get(config, "plugins", EmptyDict)
      modules     == Get(config, "modules", EmptyDict)
      windows     == Get(config, "windows", EmptyDict)
      advanced    == Get(config, "advanced", EmptyDict) IN
  [ pythonEdit          |-> Get(config, "python", <<>>),
    fileEdit            |-> Get(basic, "file", <<>>),
    standaloneRadio     |-> ~("mode" \in DOMAIN basic /\ basic["mode"] = "onefile"),
    outputDirEdit       |-> Get(output, "dir", <<>>),
    nameEdit            |-> Get(output, "name", <<>>),
    iconEdit            |-> Get(output, "icon", <<>>),
    assetsTable         |-> setAssets(Get(config, "assets", <<>>)),
    compilerCombo       |-> setCurrentText(f.compilerCombo,
                                           Get(compile_opt, "compiler", "auto")),
    gccPathEdit         |-> Get(compile_opt, "gcc_path", <<>>),
    autoDownloadSwitch  |-> Get(compile_opt, "auto_download", TRUE),
    consoleSwitch       |-> Get(compile_opt, "console", TRUE),
    progressSwitch      |-> Get(compile_opt, "progress", TRUE),
    memorySwitch        |-> Get(compile_opt, "memory", TRUE),
    removeSwitch        |-> Get(compile_opt, "remove", TRUE),
    ccacheSwitch        |-> Get(optimize, "ccache", FALSE),
    lowMemorySwitch     |-> Get(optimize, "low_memory", FALSE),
    ltoSwitch           |-> Get(optimize, "lto", FALSE),
    plugins             |-> [n \in Range(PluginNames) |-> Get(plugins, n, FALSE)],
    customEdit          |-> Get(config, "custom_plugins", <<>>),
    followImportsSwitch |-> Get(modules, "follow_imports", TRUE),
    includeEdit         |-> Get(modules, "include", <<>>),
    excludeEdit         |-> Get(modules, "exclude", <<>>),
    dataEdit            |-> Get(modules, "data", <<>>),
    companyEdit         |-> Get(windows, "company", <<>>),
    productEdit         |-> Get(windows, "product", <<>>),
    versionEdit         |-> Get(windows, "version", <<>>),
    descEdit            |-> Get(windows, "description", <<>>),
    uacSwitch           |-> Get(windows, "uac", FALSE),
    extraEdit           |-> Get(advanced, "extra", <<>>) ]

\* ------------------------------------------------------------ file system
\* The files and folders a file dialog can return: the folder d holding the
\* file d/f, and the file g
FsFiles == { <<"d", "/", "f">>, <<"g">> }
FsFolders == { <<"d">> }
\* A deeper tree that is dragged onto the table: the folder k holding the
\* folder k/e, which holds the file k/e/h
DeepFiles == { <<"k", "/", "e", "/", "h">> }
DeepFolders == { <<"k">>, <<"k", "/", "e">> }
\* os.listdir
ListDir(path) ==
  IF path = <<"d">> THEN << <<"f">> >>
  ELSE IF path = <<"k">> THEN << <<"e">> >>
  ELSE IF path = <<"k", "/", "e">> THEN << <<"h">> >>
  ELSE <<>>
\* os.path.isfile
IsFile(path) == path \in FsFiles \cup DeepFiles
\* os.path.isdir
IsDir(path) == path \in FsFolders \cup DeepFolders
\* os.path.exists
Exists(path) == IsFile(path) \/ IsDir(path)
\* os.path.join(a, b) for a relative b
PathJoin(a, b) == IF a = <<>> THEN b ELSE a \o <<"/">> \o b

\* AssetsInterface.addAsset(path, target_path) on the table
addAsset(table, path, target_path, hasTarget) ==
  IF path = <<>> THEN table
  ELSE IF \E i \in DOMAIN table : table[i].source = path THEN table
  ELSE Append(table,
         [ enabled   |-> TRUE,
           source    |-> path,
           target    |-> IF hasTarget THEN target_path ELSE Basename(path),
           type_text |-> IF IsFile(path) THEN "File" ELSE "Folder" ])

RECURSIVE addAssetRecursive(_, _, _)
RECURSIVE addChildren(_, _, _, _)
\* the loop over os.listdir(path) of addAssetRecursive
addChildren(table, path, relative_path, items) ==
  IF items = <<>> THEN table
  ELSE addChildren(
         addAssetRecursive(table, PathJoin(path, Head(items)),
           IF relative_path # <<>> THEN PathJoin(relative_path, Head(items))
           ELSE Head(items)),
         path, relative_path, Tail(items))

\* AssetsInterface.addAssetRecursive(path, relative_path)
addAssetRecursive(table, path, relative_path) ==
  LET target == IF relative_path # <<>> THEN relative_path ELSE Basename(path) IN
  IF path = <<>> THEN table
  ELSE IF IsDir(path)
  THEN addChildren(addAsset(table, path, target, TRUE), path, relative_path,
                   ListDir(path))
  ELSE addAsset(table, path, target, TRUE)

RECURSIVE dropAll(_, _)
\* the loop of AssetsInterface.dropEvent over the local files of the urls
dropAll(table, files) ==
  IF files = <<>> THEN table
  ELSE LET file_path == Head(files) IN
       dropAll(IF Exists(file_path)
               THEN IF IsDir(file_path)
                    THEN addAssetRecursive(table, file_path, <<>>)
                    ELSE addAsset(table, file_path, <<>>, FALSE)
               ELSE table,
               Tail(files))

\* the rows of the table that are not in the set rows, order kept
removeRows(table, rows) ==
  LET keep == {i \in DOMAIN table : i \notin rows}
      RECURSIVE Pick(_)
      Pick(i) == IF i > Len(table) THEN <<>>
                 ELSE (IF i \in keep THEN <<table[i]>> ELSE <<>>) \o Pick(i + 1)
  IN Pick(1)

\* ------------------------------------------------------------ notifications
NoBar == [kind |-> "none", text |-> "none", hasCode |-> FALSE, code |-> 0]
Bar(kind, text) == [kind |-> kind, text |-> text, hasCode |-> FALSE, code |-> 0]

\* The InfoBar.error of buildCommand (src/main.py:1363)
MissingFileBar == Bar("error", "no python file selected")

NoDialog == [open |-> FALSE, command |-> <<>>, cwd |-> <<>>,
             env |-> [CC |-> <<>>, CCACHE |-> <<>>]]

\* Content of the configuration file: nothing written yet, a JSON document,
\* or a file cut short by a failed write
\* (bad: the key whose value has the wrong shape, "none" when every value
\* has the shape getConfig gives it)
NoFile == [state |-> "absent", config |-> EmptyDict, bad |-> "none"]
JsonFile(c) == [state |-> "json", config |-> c, bad |-> "none"]
BrokenFile == [state |-> "broken", config |-> EmptyDict, bad |-> "none"]

\* A JSON document like c in which the value of one key is a string where
\* setConfig expects an object or a list; "config": the document itself is
\* a list, not an object
MisshapenFile(c, key) ==
  [state |-> "json",
   config |-> IF key = "config" THEN EmptyDict
              ELSE [x \in DOMAIN c \ {key} |-> c[x]],
   bad |-> key]

\* ------------------------------------------------------------------- Init
Init ==
  /\ form = DefaultForm
  /\ ops = 0
  /\ infoBar = NoBar
  /\ escaped = FALSE
  /\ dialog = NoDialog
  /\ configFile = NoFile
  /\ packageThread = 0
  /\ threads = <<>>
  /\ queue = <<>>
  /\ logEdit = <<>>
  /\ progressBar = 0
  /\ stopButton = FALSE

\* The interface thread runs a handler of the main window: no modal dialog
\* is open and the process has not been aborted by an escaped exception
UiReady == ~escaped /\ ~dialog.open

\* ---------------------------------------------------------- form editing
\* The user flips a SwitchButton
ToggleSwitch(sw) ==
  /\ UiReady /\ ops < MaxOps
  /\ form' = [form EXCEPT ![sw] = ~@]
  /\ ops' = ops + 1
  /\ UNCHANGED <<uiVars, runVars>>

\* The user checks or unchecks a plugin CheckBox
TogglePlugin(n) ==
  /\ UiReady /\ ops < MaxOps
  /\ form' = [form EXCEPT !.plugins[n] = ~@]
  /\ ops' = ops + 1
  /\ UNCHANGED <<uiVars, runVars>>

\* The user replaces the text of a LineEdit / TextEdit (typing, or the
\* select* handlers that call setText with the chosen path)
SetText(field, v) ==
  /\ UiReady /\ ops < MaxOps
  /\ v \in TextValues[field] /\ v # form[field]
  /\ form' = [form EXCEPT ![field] = v]
  /\ ops' = ops + 1
  /\ UNCHANGED <<uiVars, runVars>>

\* BasicSettingsInterface.selectFile with a file chosen in the dialog
SelectFile(v) ==
  /\ UiReady
  /\ v \in TextValues["fileEdit"] /\ v # <<>> /\ v # form.fileEdit
  /\ form' = [form EXCEPT !.fileEdit = v]
  /\ UNCHANGED <<ops, uiVars, runVars>>

\* The user picks one of the two RadioButtons
SelectMode(standalone) ==
  /\ UiReady /\ ops < MaxOps
  /\ standalone # form.standaloneRadio
  /\ form' = [form EXCEPT !.standaloneRadio = standalone]
  /\ ops' = ops + 1
  /\ UNCHANGED <<uiVars, runVars>>

\* The user picks an item of compilerCombo
SelectCompiler(c) ==
  /\ UiReady /\ ops < MaxOps
  /\ c \in CompilerItems /\ c # form.compilerCombo
  /\ form' = [form EXCEPT !.compilerCombo = c]
  /\ ops' = ops + 1
  /\ UNCHANGED <<uiVars, runVars>>

\* AssetsInterface.addFile with one file chosen in the dialog
AddFile(path) ==
  /\ UiReady /\ ops < MaxOps
  /\ path \in FsFiles
  /\ form' = [form EXCEPT !.assetsTable = addAsset(@, path, <<>>, FALSE)]
  /\ form' # form
  /\ ops' = ops + 1
  /\ UNCHANGED <<uiVars, runVars>>

\* AssetsInterface.addFolder
AddFolder(folder) ==
  /\ UiReady /\ ops < MaxOps
  /\ folder \in FsFolders
  /\ form' = [form EXCEPT !.assetsTable = addAssetRecursive(@, folder, <<>>)]
  /\ form' # form
  /\ ops' = ops + 1
  /\ UNCHANGED <<uiVars, runVars>>

\* What the user drags onto the table: a folder with folders in it, a file
\* of that folder alone, a folder and a file, a file and a path that does
\* not exist (any more)
DropValues ==
  { << <<"k">> >>, << <<"k", "/", "e", "/", "h">> >>,
    << <<"d">>, <<"g">> >>, << <<"g">>, <<"z">> >> }

\* AssetsInterface.dropEvent
DropFiles(files) ==
  /\ UiReady /\ ops < MaxOps
  /\ files \in DropValues
  /\ form' = [form EXCEPT !.assetsTable = dropAll(@, files)]
  /\ form' # form
  /\ ops' = ops + 1
  /\ UNCHANGED <<uiVars, runVars>>

\* The user checks or unchecks the include box of a row
ToggleAsset(i) ==
  /\ UiReady /\ ops < MaxOps
  /\ i \in DOMAIN form.assetsTable
  /\ form' = [form EXCEPT !.assetsTable[i].enabled = ~@]
  /\ ops' = ops + 1
  /\ UNCHANGED <<uiVars, runVars>>

\* The user edits the target path cell of a row (the only editable column)
EditTarget(i, v) ==
  /\ UiReady /\ ops < MaxOps
  /\ i \in DOMAIN form.assetsTable
  /\ v \in {<<>>, <<"t">>} /\ v # form.assetsTable[i].target
  /\ form' = [form EXCEPT !.assetsTable[i].target = v]
  /\ ops' = ops + 1
  /\ UNCHANGED <<uiVars, runVars>>

\* AssetsInterface.removeSelected with the rows selected by the user
RemoveSelected(rows) ==
  /\ UiReady /\ ops < MaxOps
  /\ rows # {} /\ rows \subseteq DOMAIN form.assetsTable
  /\ form' = [form EXCEPT !.assetsTable = removeRows(@, rows)]
  /\ ops' = ops + 1
  /\ UNCHANGED <<uiVars, runVars>>

\* AssetsInterface.clearAll
ClearAll ==
  /\ UiReady /\ ops < MaxOps
  /\ form.assetsTable # <<>>
  /\ form' = [form EXCEPT !.assetsTable = <<>>]
  /\ ops' = ops + 1
  /\ UNCHANGED <<uiVars, runVars>>

\* ------------------------------------------------------ preview, save, load
\* MainInterface.previewCommand; ccacheFound is the outcome of findCCache
PreviewCommand(ccacheFound) ==
  /\ UiReady
  /\ IF Truthy(buildCommand(form))
     THEN /\ dialog' = [open    |-> TRUE,
                        command |-> buildCommand(form).text,
                        cwd     |-> Dirname(form.fileEdit),
                        env     |-> getEnvironment(form, ccacheFound)]
          /\ UNCHANGED infoBar
     ELSE /\ infoBar' = MissingFileBar
          /\ UNCHANGED dialog
  /\ UNCHANGED <<formVars, escaped, configFile, runVars>>

\* The user closes the preview Dialog: dialog.exec() returns
CloseDialog ==
  /\ ~escaped /\ dialog.open
  /\ dialog' = NoDialog
  /\ UNCHANGED <<formVars, infoBar, escaped, configFile, runVars>>

SavedBar == Bar("success", "config saved")
LoadedBar == Bar("success", "config loaded")
LoadFailedBar == Bar("error", "load failed")

\* How writing the file chosen in the save dialog ends
SaveOutcomes == {"ok", "openFails", "writeFails"}

\* MainInterface.saveConfig with a file chosen: open() and json.dump() are
\* not inside a try block, an OSError leaves the handler
SaveConfig(outcome) ==
  /\ UiReady /\ ops < MaxOps
  /\ ops' = ops + 1
  /\ outcome \in SaveOutcomes
  /\ IF outcome = "ok"
     THEN /\ configFile' = JsonFile(getConfig(form))
          /\ infoBar' = SavedBar
          /\ UNCHANGED escaped
     ELSE /\ configFile' = IF outcome = "writeFails" THEN BrokenFile ELSE configFile
          /\ escaped' = TRUE
          /\ UNCHANGED infoBar
  /\ UNCHANGED <<form, dialog, runVars>>

\* The files the open dialog can return: the file written by saveConfig, a
\* file holding {}, a file that cannot be read or parsed
LoadableFiles == {configFile, JsonFile(EmptyDict), BrokenFile}

\* A form filled in by the user, every option in use: a script in a folder, an
\* interpreter, one-file mode, MinGW64, the console switch off and every other
\* switch on, two plugins, every text field filled, and the asset table after
\* addFolder(d), addFile(g), the second row unchecked and the target of the
\* third edited
BusyForm ==
  [ pythonEdit          |-> <<"p">>,
    fileEdit            |-> <<"d", "/", "s">>,
    standaloneRadio     |-> FALSE,
    outputDirEdit       |-> <<"o", " ", "x">>,
    nameEdit            |-> <<"n">>,
    iconEdit            |-> <<"i">>,
    compilerCombo       |-> "MinGW64",
    gccPathEdit         |-> <<"g">>,
    autoDownloadSwitch  |-> TRUE,
    consoleSwitch       |-> FALSE,
    progressSwitch      |-> TRUE,
    memorySwitch        |-> TRUE,
    removeSwitch        |-> TRUE,
    ccacheSwitch        |-> TRUE,
    lowMemorySwitch     |-> TRUE,
    ltoSwitch           |-> TRUE,
    plugins             |-> [n \in Range(PluginNames) |-> n \in {"pyqt5", "numpy"}],
    customEdit          |-> <<"a", "\n", "\n", " ", "b">>,
    followImportsSwitch |-> TRUE,
    includeEdit         |-> <<"m", ",", " ", "k">>,
    excludeEdit         |-> <<"x", ",", " ", "y", ",">>,
    dataEdit            |-> <<"a", "=", "b", "\n", "c">>,
    assetsTable         |->
      [ addAsset(addAssetRecursive(<<>>, <<"d">>, <<>>), <<"g">>, <<>>, FALSE)
          EXCEPT ![2].enabled = FALSE, ![3].target = <<"t">> ],
    companyEdit         |-> <<"c">>,
    productEdit         |-> <<"r">>,
    versionEdit         |-> <<"1">>,
    descEdit            |-> <<"e">>,
    uacSwitch           |-> TRUE,
    extraEdit           |-> <<"--lto=yes", "\n", " ", "\n", "-z">> ]

\* A configuration written by hand: two assets with one source
HandWrittenFile ==
  JsonFile([assets |-> << [source |-> <<"g">>],
                          [source |-> <<"g">>, target |-> <<"t">>,
                           type |-> "file", enabled |-> FALSE] >>])

\* Files that parse as JSON and have one value of the wrong shape
MisshapenFiles ==
  { MisshapenFile(getConfig(BusyForm), key) :
      key \in {"config", "output", "assets", "windows"} }

\* The widgets in the order in which the statements of setConfig set them
SetOrder ==
  << "pythonEdit", "fileEdit", "standaloneRadio", "outputDirEdit", "nameEdit",
     "iconEdit", "assetsTable", "compilerCombo", "gccPathEdit",
     "autoDownloadSwitch", "consoleSwitch", "progressSwitch", "memorySwitch",
     "removeSwitch", "ccacheSwitch", "lowMemorySwitch", "ltoSwitch", "plugins",
     "customEdit", "followImportsSwitch", "includeEdit", "excludeEdit",
     "dataEdit", "companyEdit", "productEdit", "versionEdit", "descEdit",
     "uacSwitch", "extraEdit" >>

\* The widget of the first statement of setConfig that calls a method of the
\* value of the key: .get of a section, the loop of setAssets
FirstUse ==
  [ config   |-> "pythonEdit",
    basic    |-> "fileEdit",
    output   |-> "outputDirEdit",
    assets   |-> "assetsTable",
    compile  |-> "compilerCombo",
    optimize |-> "ccacheSwitch",
    plugins  |-> "plugins",
    modules  |-> "followImportsSwitch",
    windows  |-> "companyEdit",
    advanced |-> "extraEdit" ]

\* setConfig over a configuration whose key bad has a string for value: the
\* statements before the first use of the value have set their widgets, the
\* use raises AttributeError ('str' object has no attribute 'get') and the
\* other widgets stay as they were; setAssets has called clearAll before it
\* loops over the value
setConfigUntil(f, config, bad) ==
  LET Pos(fld) == CHOOSE i \in DOMAIN SetOrder : SetOrder[i] = fld
      full == setConfig(f, config) IN
  [fld \in DOMAIN f |->
     IF Pos(fld) < Pos(FirstUse[bad]) THEN full[fld]
     ELSE IF fld = "assetsTable" /\ bad = "assets" THEN <<>>
     ELSE f[fld]]

\* MainInterface.loadConfig with a file chosen: every exception of open(),
\* json.load() and setConfig() is caught and reported
LoadConfig(file) ==
  /\ UiReady /\ ops < MaxOps
  /\ ops' = ops + 1
  /\ file \in LoadableFiles \cup MisshapenFiles \cup {HandWrittenFile}
  /\ IF file.state = "json" /\ file.bad = "none"
     THEN /\ form' = setConfig(form, file.config)
          /\ infoBar' = LoadedBar
     ELSE IF file.state = "json"
     THEN /\ form' = setConfigUntil(form, file.config, file.bad)
          /\ infoBar' = LoadFailedBar
     ELSE /\ infoBar' = LoadFailedBar
          /\ UNCHANGED form
  /\ UNCHANGED <<escaped, dialog, configFile, runVars>>

\* ----------------------------------------------------------- PackageThread
\* Exit status of a child that ends on its own
ExitCodes == {0, 1}
\* Exit status of a child ended by Popen.terminate() (SIGTERM)
TermCode == -15

\* The lines a child writes
LineValues == { <<"x", "\n">>, <<"5", "0", "%", "\n">> }

\* Lines with a '%' a child writes: a number after a word, a word that is no
\* number, nothing before the '%', two '%', a negative number, a number
\* followed by a blank, a number above 100
ProgressLines ==
  { <<"a", " ", "7", "%", "\n">>, <<"x", "%", "\n">>, <<"%", "\n">>,
    <<"1", "%", "2", "%", "\n">>, <<"-", "3", "%", "\n">>,
    <<"9", " ", "%", "\n">>, <<"1", "5", "0", "%", "\n">> }

NoCwd == [isNone |-> TRUE, path |-> <<>>]

\* NewThread keeping the command between double quotes
NewThreadQuoted(command, env, cwd) ==
  [ command |-> <<"\"">> \o command \o <<"\"">>, env |-> env, cwd |-> cwd,
    pc |-> "popen", process |-> FALSE, child |-> "none", written |-> <<>>,
    nread |-> 0, rc |-> 0, stops |-> 0, termSent |-> FALSE ]

\* PackageThread.__init__ followed by start()
NewThread(command, env, cwd) ==
  [ command    |-> command,
    env        |-> env,
    cwd        |-> cwd,
    pc         |-> "popen",   \* position of run(): popen, read, done
    process    |-> FALSE,     \* self.process is not None
    child      |-> "none",    \* the child process: none, running, exited
    written    |-> <<>>,      \* lines the child wrote on its stdout
    nread      |-> 0,         \* lines run() took from the pipe
    rc         |-> 0,         \* exit status of the child
    stops      |-> 0,         \* calls of stopPackage that found it running
    termSent   |-> FALSE ]    \* process.terminate() was called

\* QThread.isRunning
isRunning(t) == t.pc # "done"

\* A PackageThread object that was released: it finished, every signal it
\* emitted was handled, and LogInterface.packageThread refers to another one
Released ==
  [ command |-> <<>>, env |-> [CC |-> <<>>, CCACHE |-> <<>>],
    cwd |-> [isNone |-> TRUE, path |-> <<>>], pc |-> "done", process |-> FALSE,
    child |-> "none", written |-> <<>>, nread |-> 0, rc |-> 0, stops |-> 0,
    termSent |-> FALSE ]

\* self.packageThread = PackageThread(...) drops the last reference to the
\* thread it referred to; a finished thread with no signal pending is gone
Release(ts, pending) ==
  [ r \in DOMAIN ts |->
      IF ts[r].pc = "done" /\ \A i \in DOMAIN pending : pending[i].run # r
      THEN Released ELSE ts[r] ]

Signal(sig, run, text, value, success, msg) ==
  [sig |-> sig, run |-> run, text |-> text, value |-> value,
   success |-> success, msg |-> msg]

NoMsg == [text |-> "none", hasCode |-> FALSE, code |-> 0]
OutputSignal(run, kind, text) ==
  Signal("output", run, text, 0, FALSE, [NoMsg EXCEPT !.text = kind])
ProgressSignal(run, value) == Signal("progress", run, <<>>, value, FALSE, NoMsg)
FinishedSignal(run, success, msg) == Signal("finished", run, <<>>, 0, success, msg)

\* An entry of the log view; run and kind tell where the text comes from
LogEntry(run, kind, text, code) ==
  [run |-> run, kind |-> kind, text |-> text, code |-> code]

DigitValue ==
  [c \in {"0", "1", "2", "3", "4", "5", "6", "7", "8", "9"} |->
     CASE c = "0" -> 0 [] c = "1" -> 1 [] c = "2" -> 2 [] c = "3" -> 3
       [] c = "4" -> 4 [] c = "5" -> 5 [] c = "6" -> 6 [] c = "7" -> 7
       [] c = "8" -> 8 [] c = "9" -> 9]

\* s is a non-empty string of decimal digits
IsDigits(s) == s # <<>> /\ \A i \in DOMAIN s : s[i] \in DOMAIN DigitValue

RECURSIVE DigitsOf(_)
DigitsOf(s) == IF s = <<>> THEN 0 ELSE 10 * DigitsOf(SubSeq(s, 1, Len(s) - 1))
                                       + DigitValue[s[Len(s)]]

\* int(s) raises ValueError unless s is a decimal numeral, with or without sign
IsInt(s) ==
  /\ s # <<>>
  /\ IF Head(s) \in {"+", "-"} THEN IsDigits(Tail(s)) ELSE IsDigits(s)

\* int(s)
IntOf(s) ==
  IF Head(s) = "-" THEN 0 - DigitsOf(Tail(s))
  ELSE IF Head(s) = "+" THEN DigitsOf(Tail(s))
  ELSE DigitsOf(s)

RECURSIVE SplitWsAcc(_, _)
SplitWsAcc(s, cur) ==
  IF s = <<>> THEN (IF cur = <<>> THEN <<>> ELSE <<cur>>)
  ELSE IF IsSpace(Head(s))
  THEN (IF cur = <<>> THEN <<>> ELSE <<cur>>) \o SplitWsAcc(Tail(s), <<>>)
  ELSE SplitWsAcc(Tail(s), Append(cur, Head(s)))

\* str.split(): the words between runs of whitespace
SplitWs(s) == SplitWsAcc(s, <<>>)

\* PercentWords taking the text before the last '%' of the line
PercentWordsLast(line) ==
  SplitWs(Join(SubSeq(Split(line, "%"), 1, Len(Split(line, "%")) - 1), <<"%">>))

\* line.split("%")[0].split(): the words before the first '%'
PercentWords(line) == SplitWs(Split(line, "%")[1])

\* The try block of run(): int(...) succeeded
HasPercent(line) ==
  /\ "%" \in Range(line)
  /\ PercentWords(line) # <<>>
  /\ IsInt(PercentWords(line)[Len(PercentWords(line))])

Percent(line) == IntOf(PercentWords(line)[Len(PercentWords(line))])

\* ------------------------------------------------------------ LogInterface
\* setValue of a progress bar that takes every value
setValueAny(bar, value) == value

\* ProgressBar.setValue with the range 0..100 set in LogInterface.setupUI
\* (QProgressBar: a value outside the range leaves the current value)
setValue(bar, value) == IF value < 0 \/ value > 100 THEN bar ELSE value

\* appendLog inserting at a cursor left at the start of the log
appendLogAtStart(log, entry) == <<entry>> \o log

\* LogInterface.appendLog: the text is inserted at the end of the log
appendLog(log, entry) == Append(log, entry)

\* The lines appended by LogInterface.startPackage for the run: the start
\* time and, when env is not empty, the environment variables
StartEntries(run, env) ==
  << LogEntry(run, "start", <<>>, 0) >>
  \o (IF env.CC # <<>> \/ env.CCACHE # <<>>
      THEN << LogEntry(run, "envhead", <<>>, 0) >>
           \o (IF env.CC # <<>>
               THEN << LogEntry(run, "env", <<"CC", "=">> \o env.CC, 0) >>
               ELSE <<>>)
           \o (IF env.CCACHE # <<>>
               THEN << LogEntry(run, "env",
                         <<"NUITKA_CCACHE_BINARY", "=">> \o env.CCACHE, 0) >>
               ELSE <<>>)
           \o << LogEntry(run, "blank", <<>>, 0) >>
      ELSE <<>>)

\* MainInterface.startPackage, with LogInterface.startPackage when a command
\* was built: log cleared, progress bar shown at 0, stop button enabled, the
\* start lines appended, a PackageThread created, connected and started
MainStartPackage(ccacheFound) ==
  /\ UiReady
  /\ IF Truthy(buildCommand(form))
     THEN LET run == Len(threads) + 1
              env == getEnvironment(form, ccacheFound)
              cwd == [isNone |-> FALSE, path |-> Dirname(form.fileEdit)] IN
          /\ run <= MaxRuns
          /\ logEdit' = StartEntries(run, env)
          /\ progressBar' = setValue(progressBar, 0)
          /\ stopButton' = TRUE
          /\ threads' = Append(Release(threads, queue),
                               NewThread(buildCommand(form).text, env, cwd))
          /\ packageThread' = run
          /\ UNCHANGED <<infoBar, queue>>
     ELSE /\ infoBar' = MissingFileBar
          /\ UNCHANGED runVars
  /\ UNCHANGED <<formVars, escaped, dialog, configFile>>

RECURSIVE LinesOf(_)
\* the number of lines the children of the threads ts wrote
LinesOf(ts) == IF ts = <<>> THEN 0 ELSE Len(Head(ts).written) + LinesOf(Tail(ts))
LinesWritten == LinesOf(threads)

RECURSIVE StopsOf(_)
\* the number of stop clicks that reached the threads ts
StopsOf(ts) == IF ts = <<>> THEN 0 ELSE Head(ts).stops + StopsOf(Tail(ts))
StopsMade == StopsOf(threads)

\* PackageThread.stop
stop(t) == IF t.process THEN [t EXCEPT !.termSent = TRUE] ELSE t

\* LogInterface.stopPackage, the handler of the stop button
StopPackage ==
  /\ UiReady
  /\ stopButton
  /\ packageThread # 0
  /\ isRunning(threads[packageThread])
  /\ StopsMade < MaxStops
  /\ threads' = [threads EXCEPT
                   ![packageThread] = [stop(@) EXCEPT !.stops = @ + 1]]
  /\ logEdit' = appendLog(logEdit, LogEntry(packageThread, "cancel", <<>>, 0))
  /\ UNCHANGED <<formVars, uiVars, packageThread, queue, progressBar,
                 stopButton>>

\* The InfoBar of packageFinished
FinishedBar(success, msg) ==
  [kind |-> IF success THEN "success" ELSE "error",
   text |-> msg.text, hasCode |-> msg.hasCode, code |-> msg.code]

\* packageFinished without its first statement, stopButton.setEnabled(False)
packageFinishedKeepsButton(sg) ==
  /\ stopButton' = stopButton
  /\ logEdit' = appendLog(appendLog(logEdit, LogEntry(sg.run, "end", <<>>, 0)),
                          LogEntry(sg.run, "result", <<sg.msg.text>>, sg.msg.code))
  /\ infoBar' = FinishedBar(sg.success, sg.msg)
  /\ progressBar' = IF sg.success THEN setValue(progressBar, 100)
                     ELSE progressBar

\* LogInterface.packageFinished
packageFinished(sg) ==
  /\ stopButton' = FALSE
  /\ logEdit' = appendLog(appendLog(logEdit, LogEntry(sg.run, "end", <<>>, 0)),
                          LogEntry(sg.run, "result", <<sg.msg.text>>, sg.msg.code))
  /\ infoBar' = FinishedBar(sg.success, sg.msg)
  /\ progressBar' = IF sg.success THEN setValue(progressBar, 100)
                     ELSE progressBar

\* The interface thread's event loop takes the oldest posted signal and runs
\* the slot connected to it: appendLog, updateProgress or packageFinished
DeliverSignal ==
  /\ ~escaped
  /\ queue # <<>>
  /\ queue' = Tail(queue)
  /\ LET sg == Head(queue) IN
     CASE sg.sig = "output" ->
            /\ logEdit' = appendLog(logEdit,
                                    LogEntry(sg.run, sg.msg.text, sg.text, 0))
            /\ UNCHANGED <<infoBar, progressBar, stopButton>>
       [] sg.sig = "progress" ->
            /\ progressBar' = setValue(progressBar, sg.value)
            /\ UNCHANGED <<infoBar, logEdit, stopButton>>
       [] sg.sig = "finished" -> packageFinished(sg)
  /\ UNCHANGED <<formVars, escaped, dialog, configFile, packageThread, threads>>

\* ------------------------------------------------------ PackageThread.run
ErrorMsg == [text |-> "error", hasCode |-> FALSE, code |-> 0]
SuccessMsg == [text |-> "success", hasCode |-> FALSE, code |-> 0]
FailedMsg(rc) == [text |-> "failed", hasCode |-> TRUE, code |-> rc]

\* The three emits at the head of run(): the command, the working directory
\* when self.cwd is true, the rule
HeaderSignals(r, t) ==
  << OutputSignal(r, "header", t.command) >>
  \o (IF ~t.cwd.isNone /\ t.cwd.path # <<>>
      THEN << OutputSignal(r, "cwd", t.cwd.path) >> ELSE <<>>)
  \o << OutputSignal(r, "rule", <<>>) >>

\* subprocess.Popen(..., cwd=cwd): with cwd None the child stays in the
\* directory of the application; otherwise the child changes to cwd before
\* it runs the command, and for the empty string that fails (Popen raises
\* FileNotFoundError: No such file or directory: '')
ChdirWorks(cwd) == cwd.isNone \/ cwd.path # <<>>

\* run() from its start to subprocess.Popen: the header is emitted, then the
\* child is created and self.process set, or Popen raises and the except
\* branch emits finished(False, error)
ThreadPopen(r, ok) ==
  /\ ~escaped
  /\ r \in DOMAIN threads
  /\ threads[r].pc = "popen"
  /\ ok => ChdirWorks(threads[r].cwd)
  /\ IF ok
     THEN /\ threads' = [threads EXCEPT ![r].pc = "read", ![r].process = TRUE,
                                        ![r].child = "running"]
          /\ queue' = queue \o HeaderSignals(r, threads[r])
     ELSE /\ threads' = [threads EXCEPT ![r].pc = "done"]
          /\ queue' = Append(queue \o HeaderSignals(r, threads[r]),
                             FinishedSignal(r, FALSE, ErrorMsg))
  /\ UNCHANGED <<formVars, uiVars, packageThread, logEdit, progressBar,
                 stopButton>>

\* The signals emitted for one line read from the pipe
LineSignals(r, line) ==
  << OutputSignal(r, "line", line) >>
  \o (IF HasPercent(line) THEN << ProgressSignal(r, Percent(line)) >> ELSE <<>>)

\* One turn of the read loop: readline returned a line
ThreadRead(r) ==
  /\ ~escaped
  /\ r \in DOMAIN threads
  /\ threads[r].pc = "read"
  /\ threads[r].nread < Len(threads[r].written)
  /\ queue' = queue \o LineSignals(r, threads[r].written[threads[r].nread + 1])
  /\ threads' = [threads EXCEPT ![r].nread = @ + 1]
  /\ UNCHANGED <<formVars, uiVars, packageThread, logEdit, progressBar,
                 stopButton>>

\* ExitSignal taking every exit status that is not positive for a success
ExitSignalNotPositive(r, returncode) ==
  IF returncode <= 0
  THEN FinishedSignal(r, TRUE, SuccessMsg)
  ELSE FinishedSignal(r, FALSE, FailedMsg(returncode))

\* The finished signal of run() after process.wait()
ExitSignal(r, returncode) ==
  IF returncode = 0
  THEN FinishedSignal(r, TRUE, SuccessMsg)
  ELSE FinishedSignal(r, FALSE, FailedMsg(returncode))

\* ThreadFinish with the finished signal emitted a second time as run() ends
ThreadFinishTwice(r) ==
  /\ ~escaped
  /\ r \in DOMAIN threads
  /\ threads[r].pc = "read"
  /\ threads[r].nread = Len(threads[r].written)
  /\ threads[r].child = "exited"
  /\ queue' = queue \o << ExitSignal(r, threads[r].rc), ExitSignal(r, threads[r].rc) >>
  /\ threads' = [threads EXCEPT ![r].pc = "done"]
  /\ UNCHANGED <<formVars, uiVars, packageThread, logEdit, progressBar,
                 stopButton>>

\* readline returned '' (the pipe is at its end), process.wait() returned,
\* the finished signal is emitted and run() returns
ThreadFinish(r) ==
  /\ ~escaped
  /\ r \in DOMAIN threads
  /\ threads[r].pc = "read"
  /\ threads[r].nread = Len(threads[r].written)
  /\ threads[r].child = "exited"
  /\ queue' = Append(queue, ExitSignal(r, threads[r].rc))
  /\ threads' = [threads EXCEPT ![r].pc = "done"]
  /\ UNCHANGED <<formVars, uiVars, packageThread, logEdit, progressBar,
                 stopButton>>

\* ------------------------------------------------------- the child process
\* The child writes a line on its stdout
ChildWrite(r, line) ==
  /\ ~escaped
  /\ r \in DOMAIN threads
  /\ threads[r].child = "running"
  /\ LinesWritten < MaxLines
  /\ line \in LineValues \cup ProgressLines
  /\ threads' = [threads EXCEPT ![r].written = Append(@, line)]
  /\ UNCHANGED <<formVars, uiVars, packageThread, queue, logEdit, progressBar,
                 stopButton>>

\* The child ends: with an exit status of its own, or by the terminate signal
ChildExit(r, status) ==
  /\ ~escaped
  /\ r \in DOMAIN threads
  /\ threads[r].child = "running"
  /\ status \in ExitCodes
  /\ threads' = [threads EXCEPT
                   ![r].child = "exited",
                   ![r].rc = IF threads[r].termSent THEN TermCode ELSE status]
  /\ UNCHANGED <<formVars, uiVars, packageThread, queue, logEdit, progressBar,
                 stopButton>>

\* ---------------------------------------------------------- specifications
\* The form and its configuration file
Next ==
  \/ \E sw \in SwitchFields : ToggleSwitch(sw)
  \/ \E n \in Range(PluginNames) : TogglePlugin(n)
  \/ \E fld \in TextFields : \E v \in TextValues[fld] : SetText(fld, v)
  \/ \E b \in BOOLEAN : SelectMode(b)
  \/ \E c \in CompilerItems : SelectCompiler(c)
  \/ \E p \in FsFiles : AddFile(p)
  \/ \E p \in FsFolders : AddFolder(p)
  \/ \E i \in 1..3 : ToggleAsset(i)
  \/ \E i \in 1..3 : \E v \in {<<>>, <<"t">>} : EditTarget(i, v)
  \/ \E rows \in SUBSET (1..3) : RemoveSelected(rows)
  \/ ClearAll
  \/ \E o \in SaveOutcomes : SaveConfig(o)
  \/ \E file \in LoadableFiles : LoadConfig(file)

Spec == Init /\ [][Next]_vars

\* The fields edited in the exploration of the two buttons of the main page
CmdTextFields == {"fileEdit", "pythonEdit", "gccPathEdit"}
CmdSwitchFields == {"ccacheSwitch", "ltoSwitch"}

\* The preview and start buttons of the main page
CmdNext ==
  \/ \E sw \in CmdSwitchFields : ToggleSwitch(sw)
  \/ \E fld \in CmdTextFields : \E v \in TextValues[fld] : SetText(fld, v)
  \/ \E c \in {"localGCC"} : SelectCompiler(c)
  \/ \E found \in BOOLEAN : PreviewCommand(found)
  \/ CloseDialog
  \/ \E found \in BOOLEAN : MainStartPackage(found)

CmdSpec == Init /\ [][CmdNext]_vars

\* No packaging is under way: every thread started has finished and its
\* finished signal was handled (the stop button is disabled again)
Idle == ~stopButton /\ queue = <<>> /\ \A r \in DOMAIN threads : ~isRunning(threads[r])

\* The user starts packaging when none is under way
StartWhenIdle(ccacheFound) == Idle /\ MainStartPackage(ccacheFound)

\* The script path typed or chosen, the preview and the start of a run, up
\* to the creation of the child and its end
DirNext ==
  \/ \E v \in TextValues["fileEdit"] : SetText("fileEdit", v)
  \/ \E found \in {FALSE} : PreviewCommand(found)
  \/ CloseDialog
  \/ \E found \in {FALSE} : StartWhenIdle(found)
  \/ DeliverSignal
  \/ \E r \in 1..MaxRuns : \E ok \in BOOLEAN : ThreadPopen(r, ok)
  \/ \E r \in 1..MaxRuns : ThreadFinish(r)
  \/ \E r \in 1..MaxRuns : \E status \in {0} : ChildExit(r, status)

DirSpec == Init /\ [][DirNext]_vars

\* Packaging, one run after the other: the start and stop buttons, the worker
\* thread, its child process and the delivery of its signals to the
\* interface thread
RunNext ==
  \/ \E v \in TextValues["fileEdit"] : SelectFile(v)
  \/ \E found \in BOOLEAN : StartWhenIdle(found)
  \/ StopPackage
  \/ DeliverSignal
  \/ \E r \in 1..MaxRuns : \E ok \in BOOLEAN : ThreadPopen(r, ok)
  \/ \E r \in 1..MaxRuns : ThreadRead(r)
  \/ \E r \in 1..MaxRuns : ThreadFinish(r)
  \/ \E r \in 1..MaxRuns : \E line \in LineValues : ChildWrite(r, line)
  \/ \E r \in 1..MaxRuns : \E status \in ExitCodes : ChildExit(r, status)

RunSpec == Init /\ [][RunNext]_vars

\* Packaging with the start button pressed at any time, also while a worker
\* runs; the children end without writing
RaceNext ==
  \/ \E v \in TextValues["fileEdit"] : SelectFile(v)
  \/ \E found \in BOOLEAN : MainStartPackage(found)
  \/ StopPackage
  \/ DeliverSignal
  \/ \E r \in 1..MaxRuns : \E ok \in BOOLEAN : ThreadPopen(r, ok)
  \/ \E r \in 1..MaxRuns : ThreadFinish(r)
  \/ \E r \in 1..MaxRuns : \E status \in ExitCodes : ChildExit(r, status)

RaceSpec == Init /\ [][RaceNext]_vars

\* The form before the operations explored: as at start-up, or filled in
FormInit ==
  /\ form \in {DefaultForm, BusyForm}
  /\ ops = 0
  /\ infoBar = NoBar
  /\ escaped = FALSE
  /\ dialog = NoDialog
  /\ configFile = NoFile
  /\ packageThread = 0
  /\ threads = <<>>
  /\ queue = <<>>
  /\ logEdit = <<>>
  /\ progressBar = 0
  /\ stopButton = FALSE

\* The command and the configuration of a form: edits (one fewer than the
\* budget of operations), the load of a configuration, the preview
FormNext ==
  \/ ops + 1 < MaxOps /\ \E sw \in SwitchFields : ToggleSwitch(sw)
  \/ ops + 1 < MaxOps /\ \E n \in Range(PluginNames) : TogglePlugin(n)
  \/ ops + 1 < MaxOps /\ \E fld \in TextFields : \E v \in TextValues[fld] : SetText(fld, v)
  \/ ops + 1 < MaxOps /\ \E b \in BOOLEAN : SelectMode(b)
  \/ ops + 1 < MaxOps /\ \E c \in CompilerItems : SelectCompiler(c)
  \/ ops + 1 < MaxOps /\ \E p \in FsFiles : AddFile(p)
  \/ ops + 1 < MaxOps /\ \E p \in FsFolders : AddFolder(p)
  \/ ops + 1 < MaxOps /\ \E i \in 1..3 : ToggleAsset(i)
  \/ ops + 1 < MaxOps /\ \E i \in 1..3 : \E v \in {<<>>, <<"t">>} : EditTarget(i, v)
  \/ ops + 1 < MaxOps /\ \E rows \in SUBSET (1..3) : RemoveSelected(rows)
  \/ ops + 1 < MaxOps /\ ClearAll
  \/ ops + 1 < MaxOps /\ LoadConfig(JsonFile(EmptyDict))
  \/ \E found \in BOOLEAN : PreviewCommand(found)
  \/ CloseDialog

FormSpec == FormInit /\ [][FormNext]_vars

\* One run whose child writes lines with and without a percentage and exits
ParseNext ==
  \/ \E v \in {<<"d", "/", "s">>} : SelectFile(v)
  \/ \E found \in {FALSE} : threads = <<>> /\ MainStartPackage(found)
  \/ DeliverSignal
  \/ \E r \in {1} : \E ok \in {TRUE} : ThreadPopen(r, ok)
  \/ \E r \in {1} : ThreadRead(r)
  \/ \E r \in {1} : ThreadFinish(r)
  \/ \E r \in {1} : \E line \in LineValues \cup ProgressLines : ChildWrite(r, line)
  \/ \E r \in {1} : \E status \in ExitCodes : ChildExit(r, status)

ParseSpec == Init /\ [][ParseNext]_vars

\* One run that the user may cancel, with the schedulers at work: the
\* operating system goes on running a worker thread that can take a step
\* (QThread.start, the read loop, the end of run()), and the event loop of
\* the interface thread goes on handling the signals posted to it. Nothing
\* is assumed of the child: it may write and exit, or never do either.
LiveNext ==
  \/ \E v \in {<<"d", "/", "s">>} : SelectFile(v)
  \/ \E found \in {FALSE} : threads = <<>> /\ MainStartPackage(found)
  \/ StopPackage
  \/ DeliverSignal
  \/ \E r \in {1} : \E ok \in BOOLEAN : ThreadPopen(r, ok)
  \/ \E r \in {1} : ThreadRead(r)
  \/ \E r \in {1} : ThreadFinish(r)
  \/ \E r \in {1} : \E line \in {<<"x", "\n">>} : ChildWrite(r, line)
  \/ \E r \in {1} : \E status \in ExitCodes : ChildExit(r, status)

LiveFairness ==
  /\ WF_vars(DeliverSignal)
  /\ WF_vars(\E ok \in BOOLEAN : ThreadPopen(1, ok))
  /\ WF_vars(ThreadRead(1))
  /\ WF_vars(ThreadFinish(1))

LiveSpec == Init /\ [][LiveNext]_vars /\ LiveFairness

\* The user edits the form
EditForm ==
  \/ \E sw \in SwitchFields : ToggleSwitch(sw)
  \/ \E n \in Range(PluginNames) : TogglePlugin(n)
  \/ \E fld \in TextFields : \E v \in TextValues[fld] : SetText(fld, v)
  \/ \E b \in BOOLEAN : SelectMode(b)
  \/ \E c \in CompilerItems : SelectCompiler(c)
  \/ \E p \in FsFiles : AddFile(p)
  \/ \E p \in FsFolders : AddFolder(p)
  \/ \E i \in 1..3 : ToggleAsset(i)
  \/ \E i \in 1..3 : \E v \in {<<>>, <<"t">>} : EditTarget(i, v)
  \/ \E rows \in SUBSET (1..3) : RemoveSelected(rows)
  \/ ClearAll

\* The asset table: rows added by the dialogs and by drops, removed, edited,
\* saved and loaded
AssetNext ==
  \/ \E p \in FsFiles : AddFile(p)
  \/ \E p \in FsFolders : AddFolder(p)
  \/ \E files \in DropValues : DropFiles(files)
  \/ \E i \in 1..2 : ToggleAsset(i)
  \/ \E i \in 1..2 : \E v \in {<<"t">>} : EditTarget(i, v)
  \/ \E rows \in {{1}, {2}, {1, 2}} : RemoveSelected(rows)
  \/ ClearAll
  \/ \E outcome \in {"ok"} : SaveConfig(outcome)
  \/ \E file \in {configFile, HandWrittenFile} : LoadConfig(file)

AssetSpec == Init /\ [][AssetNext]_vars

\* The load of a configuration over a form: edits (two fewer than the budget
\* of operations), then the load button
LoadNext ==
  \/ ops + 2 < MaxOps /\ EditForm
  \/ \E file \in LoadableFiles \cup MisshapenFiles : LoadConfig(file)

LoadSpec == FormInit /\ [][LoadNext]_vars

\* ------------------------------------------------- properties: the command
\* `sub in s` of Python for strings
Occurs(sub, s) ==
  \E i \in 1..(Len(s) - Len(sub) + 1) : SubSeq(s, i, i + Len(sub) - 1) = sub

\* The literal flag is somewhere in the command string built for the form
Has(flag) == flag \in Range(buildCommand(form).text)

\* The text holds a character that is not whitespace
NonBlank(text) == \E i \in DOMAIN text : ~IsSpace(text[i])

\* The flag the label of each switch stands for
SwitchFlag ==
  [ autoDownloadSwitch  |-> "--assume-yes-for-downloads",
    consoleSwitch       |-> "--windows-disable-console",
    progressSwitch      |-> "--show-progress",
    memorySwitch        |-> "--show-memory",
    removeSwitch        |-> "--remove-output",
    lowMemorySwitch     |-> "--low-memory",
    ltoSwitch           |-> "--lto=yes",
    followImportsSwitch |-> "--follow-imports",
    uacSwitch           |-> "--windows-uac-admin" ]

\* The switches whose flag is in the command when the switch is on
PlainSwitches == DOMAIN SwitchFlag \ {"consoleSwitch", "followImportsSwitch"}

\* The flag each single-line text field is the value of
FieldFlag ==
  [ outputDirEdit |-> "--output-dir=",
    nameEdit      |-> "--output-filename=",
    iconEdit      |-> "--windows-icon-from-ico=",
    excludeEdit   |-> "--nofollow-import-to=",
    companyEdit   |-> "--windows-company-name=",
    productEdit   |-> "--windows-product-name=",
    versionEdit   |-> "--windows-file-version=",
    descEdit      |-> "--windows-file-description=" ]

\* The flag each multi-line text field produces
BlockFlag ==
  [ customEdit |-> {"--enable-plugin="},
    dataEdit   |-> {"--include-data-files=", "--include-data-dir="} ]

\* The flag of each item of compilerCombo that has one
CompilerFlag ==
  [ MinGW64 |-> "--mingw64", Clang |-> "--clang", MSVC |-> "--msvc=latest" ]

SomePlugin == \E n \in Range(PluginNames) : form.plugins[n]
SomeAsset == \E i \in DOMAIN form.assetsTable : form.assetsTable[i].enabled

Running == {r \in DOMAIN threads : isRunning(threads[r])}

\* The threads whose child process is alive
LiveChildren == {r \in DOMAIN threads : threads[r].child = "running"}

\* C2 as stated: in every reachable state at most one worker, with at most
\* one child process, is running.
C2_OneWorker == Cardinality(Running) <= 1 /\ Cardinality(LiveChildren) <= 1

\* C3 as stated: a thread that stopPackage found running was sent the
\* terminate signal for its child, wherever its run() was.
C3_TerminateSent ==
  \A r \in DOMAIN threads : threads[r].stops > 0 => threads[r].termSent

\* The texts of the child's lines of run r in the log view, top to bottom
LogLines(r) ==
  MapSeq(SelectSeq(logEdit, LAMBDA e : e.run = r /\ e.kind = "line"),
         LAMBDA e : e.text)

\* The child's lines of run r emitted but not handled yet, oldest first
PendingLines(r) ==
  MapSeq(SelectSeq(queue, LAMBDA sg : sg.sig = "output" /\ sg.run = r
                                       /\ sg.msg.text = "line"),
         LAMBDA sg : sg.text)

\* The result line of run r is in the log view
HasResult(r) ==
  \E i \in DOMAIN logEdit : logEdit[i].run = r /\ logEdit[i].kind = "result"

\* C4: for a run, the lines in the log followed by the lines on their way to
\* it are the lines the read loop took from the child, in the child's order,
\* each once; when the result of the run is in the log, the lines in the log
\* are all the lines the child wrote.
C4_LinesInOrder ==
  \A r \in DOMAIN threads :
    /\ LogLines(r) \o PendingLines(r)
         = SubSeq(threads[r].written, 1, threads[r].nread)
    /\ HasResult(r) => LogLines(r) = threads[r].written

\* A run whose child wrote two different lines has ended, both are in the log
C4_Witness ==
  \E r \in DOMAIN threads :
    /\ Len(threads[r].written) = 2
    /\ threads[r].written[1] # threads[r].written[2]
    /\ HasResult(r)
    /\ LogLines(r) = threads[r].written

\* What is reported for the exit status rc: success exactly for 0, and for
\* any other status a failure whose message carries the status
Reported(success, text, hasCode, code, rc) ==
  /\ rc = 0 => success /\ text = "success"
  /\ rc # 0 => ~success /\ text = "failed" /\ hasCode /\ code = rc

\* C5: for a run whose child has exited, the finished signal on its way and
\* the result line in the log report success exactly when the exit status
\* is 0, and a failure with that status otherwise; and the InfoBar shown when
\* the finished signal is handled does the same.
C5_ExitReported ==
  /\ [](\A r \in DOMAIN threads : threads[r].child = "exited" =>
         /\ \A i \in DOMAIN queue :
              (queue[i].sig = "finished" /\ queue[i].run = r) =>
                Reported(queue[i].success, queue[i].msg.text,
                         queue[i].msg.hasCode, queue[i].msg.code, threads[r].rc)
         /\ \A i \in DOMAIN logEdit :
              (logEdit[i].kind = "result" /\ logEdit[i].run = r) =>
                Reported(logEdit[i].text = <<"success">>, logEdit[i].text[1],
                         TRUE, logEdit[i].code, threads[r].rc))
  /\ [][(/\ queue # <<>> /\ queue' = Tail(queue)
         /\ Head(queue).sig = "finished"
         /\ threads[Head(queue).run].child = "exited")
        => /\ Reported(infoBar'.kind = "success", infoBar'.text, infoBar'.hasCode,
                       infoBar'.code, threads[Head(queue).run].rc)
           /\ progressBar' = 100 => threads[Head(queue).run].rc = 0]_vars

\* A run ended with a non-zero exit status: the log and the InfoBar say so
C5_Witness ==
  \E i \in DOMAIN logEdit :
    /\ logEdit[i].kind = "result" /\ logEdit[i].code # 0
    /\ threads[logEdit[i].run].rc = logEdit[i].code
    /\ infoBar.kind = "error" /\ infoBar.hasCode /\ infoBar.code = logEdit[i].code

\* ------------------------------------------- properties: the main page
\* C6: with an empty script path buildCommand returns no command, and a
\* step that is no edit of the form - the preview button, the start button -
\* shows the missing-file error and changes nothing else: no thread is
\* started, the log, the stop button, the progress bar, the preview dialog
\* and the form stay as they were.
C6_NoCommandNoEffect ==
  [][(form.fileEdit = <<>> /\ ops' = ops)
       => /\ buildCommand(form).isNone
          /\ infoBar' = MissingFileBar
          /\ UNCHANGED <<form, dialog, runVars>>]_vars

\* The start button was pressed with a script, the path was emptied and a
\* button pressed again: the error is shown, the one run is all there is
C6_Witness ==
  /\ form.fileEdit = <<>>
  /\ infoBar = MissingFileBar
  /\ Len(threads) = 1 /\ packageThread = 1 /\ stopButton
  /\ logEdit = StartEntries(1, threads[1].env)

\* C7 as stated: no error of the file operations of saveConfig and
\* loadConfig leaves the handler; a configuration file left incomplete by a
\* failed write comes with an error notification.
C7_ErrorsReported ==
  /\ ~escaped
  /\ configFile = BrokenFile => infoBar.kind = "error"

\* C8: the preview dialog shows, and the thread started is handed, the
\* string buildCommand returns for the form as it is, and neither handler
\* changes the form; while the dialog is shown its command is the one the
\* start button would hand to the worker.
C8_SameCommand ==
  /\ [](dialog.open => dialog.command = buildCommand(form).text)
  /\ [][/\ (~dialog.open /\ dialog'.open)
            => (dialog'.command = buildCommand(form).text /\ form' = form)
        /\ Len(threads') > Len(threads)
            => (threads'[Len(threads')].command = buildCommand(form).text
                /\ form' = form)]_vars

\* The start button, then the preview button, on the same form
C8_Witness ==
  /\ dialog.open
  /\ threads # <<>>
  /\ threads[Len(threads)].command = dialog.command
  /\ dialog.command = buildCommand(form).text

\* The command string built for the form f
TextOf(f) == buildCommand(f).text

\* The form with the switch sw in position b
With(sw, b) == [form EXCEPT ![sw] = b]

\* The string long is the string short with frag put in at one place
InsertedAt(short, frag, long) ==
  \E i \in 0..Len(short) :
    long = SubSeq(short, 1, i) \o frag \o SubSeq(short, i + 1, Len(short))

\* C9 as stated: for every switch, the command with the switch on is the
\* command with the switch off plus the literal flag of the switch,
\* whatever the other fields hold.
C9_SwitchAppendsFlag ==
  form.fileEdit # <<>> =>
    \A sw \in DOMAIN SwitchFlag :
      InsertedAt(TextOf(With(sw, FALSE)), <<" ", SwitchFlag[sw]>>,
                 TextOf(With(sw, TRUE)))

\* C9 (amended): whatever the other fields hold,
\*  - for the switches auto download, progress, memory, remove output, low
\*    memory, LTO and UAC, the command with the switch on is the command
\*    with the switch off plus the literal flag of the switch;
\*  - for the console switch it is the other way round: the command with
\*    the switch OFF is the command with the switch on plus
\*    --windows-disable-console;
\*  - the follow imports switch replaces --nofollow-imports (off) by
\*    --follow-imports, or by --follow-import-to=<modules> when modules are
\*    listed (on);
\*  - the ccache switch leaves the command as it is and sets the environment
\*    variable NUITKA_CCACHE_BINARY when it is on and ccache is found.
C9_SwitchFragment ==
  form.fileEdit # <<>> =>
    /\ \A sw \in PlainSwitches :
         InsertedAt(TextOf(With(sw, FALSE)), <<" ", SwitchFlag[sw]>>,
                    TextOf(With(sw, TRUE)))
    /\ InsertedAt(TextOf(With("consoleSwitch", TRUE)),
                  <<" ", "--windows-disable-console">>,
                  TextOf(With("consoleSwitch", FALSE)))
    /\ LET off == TextOf(With("followImportsSwitch", FALSE))
           on  == TextOf(With("followImportsSwitch", TRUE))
           frag == IF form.includeEdit = <<>> THEN <<"--follow-imports">>
                   ELSE <<"--follow-import-to=">> \o RemoveChar(form.includeEdit, " ")
       IN \E i \in 1..Len(off) :
            /\ off[i] = "--nofollow-imports"
            /\ on = SubSeq(off, 1, i - 1) \o frag \o SubSeq(off, i + 1, Len(off))
    /\ TextOf(With("ccacheSwitch", TRUE)) = TextOf(With("ccacheSwitch", FALSE))
    /\ \A found \in BOOLEAN :
         /\ getEnvironment(With("ccacheSwitch", FALSE), found).CCACHE = <<>>
         /\ getEnvironment(With("ccacheSwitch", TRUE), found).CCACHE
              = IF found THEN CCachePath ELSE <<>>

\* A script is chosen, low memory mode and LTO are both on
C9_Witness ==
  /\ form.fileEdit # <<>>
  /\ form.ltoSwitch /\ form.lowMemorySwitch
  /\ Has("--lto=yes") /\ Has("--low-memory")

\* C10: the form read back from the configuration of the form is the form
\* itself, asset rows included (order, include marks, sources, targets,
\* types), whatever compiler item was current before the load, and so it
\* builds the same command; and the file written last, loaded and written
\* again, is the same file.
C10_RoundTrip ==
  /\ \A c \in CompilerItems :
       LET loaded == setConfig([form EXCEPT !.compilerCombo = c], getConfig(form))
       IN loaded = form /\ buildCommand(loaded) = buildCommand(form)
  /\ configFile.state = "json"
       => getConfig(setConfig(form, configFile.config)) = configFile.config

\* A form with an asset row was saved and loaded again
C10_Witness ==
  /\ infoBar = LoadedBar
  /\ configFile.state = "json"
  /\ form.assetsTable # <<>>
  /\ getConfig(form) = configFile.config

\* ------------------------------------------ properties: absent keys
\* The dict d with the key k deleted
Without(d, k) == [x \in DOMAIN d \ {k} |-> d[x]]

\* The widgets set from each top-level key of the configuration
SectionFields ==
  [ python   |-> {"pythonEdit"},
    basic    |-> {"fileEdit", "standaloneRadio"},
    output   |-> {"outputDirEdit", "nameEdit", "iconEdit"},
    compile  |-> {"compilerCombo", "gccPathEdit", "autoDownloadSwitch",
                  "consoleSwitch", "progressSwitch", "memorySwitch", "removeSwitch"},
    optimize |-> {"ccacheSwitch", "lowMemorySwitch", "ltoSwitch"},
    plugins  |-> {"plugins"},
    custom_plugins |-> {"customEdit"},
    modules  |-> {"followImportsSwitch", "includeEdit", "excludeEdit", "dataEdit"},
    assets   |-> {"assetsTable"},
    windows  |-> {"companyEdit", "productEdit", "versionEdit", "descEdit",
                  "uacSwitch"},
    advanced |-> {"extraEdit"} ]

\* The widget set from each key of a section: <<section, key, widget>>
KeyFields ==
  { <<"basic", "file", "fileEdit">>, <<"basic", "mode", "standaloneRadio">>,
    <<"output", "dir", "outputDirEdit">>, <<"output", "name", "nameEdit">>,
    <<"output", "icon", "iconEdit">>,
    <<"compile", "compiler", "compilerCombo">>,
    <<"compile", "gcc_path", "gccPathEdit">>,
    <<"compile", "auto_download", "autoDownloadSwitch">>,
    <<"compile", "console", "consoleSwitch">>,
    <<"compile", "progress", "progressSwitch">>,
    <<"compile", "memory", "memorySwitch">>,
    <<"compile", "remove", "removeSwitch">>,
    <<"optimize", "ccache", "ccacheSwitch">>,
    <<"optimize", "low_memory", "lowMemorySwitch">>,
    <<"optimize", "lto", "ltoSwitch">>,
    <<"modules", "follow_imports", "followImportsSwitch">>,
    <<"modules", "include", "includeEdit">>,
    <<"modules", "exclude", "excludeEdit">>,
    <<"modules", "data", "dataEdit">>,
    <<"windows", "company", "companyEdit">>,
    <<"windows", "product", "productEdit">>,
    <<"windows", "version", "versionEdit">>,
    <<"windows", "description", "descEdit">>,
    <<"windows", "uac", "uacSwitch">>,
    <<"advanced", "extra", "extraEdit">> }

\* The form f, its widgets in the set flds as they are at start-up
Defaulted(f, flds) ==
  [fld \in DOMAIN f |-> IF fld \in flds THEN DefaultForm[fld] ELSE f[fld]]

\* C11: loading the configuration of the form with one key deleted - a
\* section, a key of a section, the mark of a plugin - gives the form with
\* the widgets of that key as they are at start-up and every other widget
\* as saved; an asset row with a key deleted is loaded as addAsset fills a
\* new row (included, target the base name of the source, a file), and
\* without its source not at all; loading the empty configuration gives the
\* start-up form, whatever the form was.
C11_DefaultsWhenAbsent ==
  LET c == getConfig(form) IN
  /\ setConfig(form, EmptyDict) = DefaultForm
  /\ \A sec \in DOMAIN SectionFields :
       setConfig(form, Without(c, sec)) = Defaulted(form, SectionFields[sec])
  /\ \A t \in KeyFields :
       setConfig(form, [c EXCEPT ![t[1]] = Without(@, t[2])])
         = Defaulted(form, {t[3]})
  /\ \A n \in Range(PluginNames) :
       setConfig(form, [c EXCEPT !.plugins = Without(@, n)])
         = [form EXCEPT !.plugins[n] = FALSE]
  /\ \A i \in DOMAIN form.assetsTable :
       LET row == form.assetsTable[i]
           Loaded(k) ==
             setConfig(form, [c EXCEPT !.assets[i] = Without(@, k)]).assetsTable
       IN /\ Loaded("enabled") = [form.assetsTable EXCEPT ![i].enabled = TRUE]
          /\ Loaded("target")
               = [form.assetsTable EXCEPT ![i].target = Basename(row.source)]
          /\ Loaded("type") = [form.assetsTable EXCEPT ![i].type_text = "File"]
          /\ Loaded("source") = removeRows(form.assetsTable, {i})

\* The empty configuration was loaded over an edited form
C11_Witness ==
  /\ ops = 2
  /\ infoBar = LoadedBar
  /\ form = DefaultForm

\* ------------------------------------------ properties: the two threads
\* C12 as stated: no attribute of a PackageThread is written by run(), in the
\* worker thread, and read by the interface thread: self.process, which
\* run() sets when the child is created, is not the attribute stop() reads
\* when stopPackage runs.
C12_NoSharedState ==
  \A r \in DOMAIN threads : ~(threads[r].process /\ threads[r].stops > 0)

\* The text of the line before its first '%'
BeforePercent(line) ==
  LET I == {i \in DOMAIN line : line[i] = "%"} IN
  IF I = {} THEN line
  ELSE SubSeq(line, 1, (CHOOSE i \in I : \A j \in I : i <= j) - 1)

\* The last whitespace-separated token of the text, empty when it has none
LastToken(text) ==
  LET t == RStrip(text)
      B == {i \in DOMAIN t : IsSpace(t[i])}
      k == IF B = {} THEN 0 ELSE CHOOSE i \in B : \A j \in B : j <= i
  IN SubSeq(t, k + 1, Len(t))

\* C13: when run() takes a line from the pipe it emits the line for the
\* log, followed by a progress signal exactly when the line holds a '%' and
\* the last whitespace-separated token before the first '%' is an integer,
\* the value being that integer; it then goes on reading. The run ends with
\* every line in the log and the report of the exit status, not of an error.
C13_Progress ==
  /\ [](\A r \in DOMAIN threads :
          HasResult(r) =>
            /\ LogLines(r) = threads[r].written
            /\ \A i \in DOMAIN logEdit :
                 logEdit[i].kind = "result" => logEdit[i].text # <<"error">>)
  /\ [][\A r \in DOMAIN threads :
          (r \in DOMAIN threads' /\ threads'[r].nread = threads[r].nread + 1) =>
            LET line == threads[r].written[threads'[r].nread]
                tok == LastToken(BeforePercent(line))
            IN /\ queue' = queue \o << OutputSignal(r, "line", line) >>
                              \o (IF "%" \in Range(line) /\ IsInt(tok)
                                  THEN << ProgressSignal(r, IntOf(tok)) >>
                                  ELSE <<>>)
               /\ threads'[r].pc = "read"]_vars

\* A line with the percentage 7 and a line whose token is no number are in
\* the log, the progress bar shows 7
C13_Witness ==
  /\ threads # <<>>
  /\ LogLines(1) = << <<"a", " ", "7", "%", "\n">>, <<"x", "%", "\n">> >>
  /\ progressBar = 7
  /\ threads[1].pc = "read"

\* ------------------------------------------ properties: the end of a run
\* The positions of the finished signals of run r waiting to be handled
FinishedPending(r) ==
  {i \in DOMAIN queue : queue[i].sig = "finished" /\ queue[i].run = r}

\* The positions of the result lines of run r in the log
ResultLines(r) ==
  {i \in DOMAIN logEdit : logEdit[i].kind = "result" /\ logEdit[i].run = r}

\* C14: a run has emitted no finished signal while run() is under way and
\* exactly one when run() has returned - after a success, a failure, a
\* cancellation or an exception of Popen; no signal of the run follows its
\* finished signal, and no output of the run follows its result in the log.
C14_OneFinishedLast ==
  \A r \in DOMAIN threads :
    LET emitted == Cardinality(FinishedPending(r)) + Cardinality(ResultLines(r)) IN
    /\ isRunning(threads[r]) => emitted = 0
    /\ (~isRunning(threads[r]) /\ threads[r] # Released) => emitted = 1
    /\ \A i \in FinishedPending(r) :
         \A j \in DOMAIN queue : queue[j].run = r => j <= i
    /\ \A i \in ResultLines(r) :
         /\ \A j \in DOMAIN queue : queue[j].run # r
         /\ \A j \in DOMAIN logEdit : logEdit[j].run = r => j <= i

\* A cancelled run has ended: its one finished signal was handled
C14_Witness ==
  \E r \in DOMAIN threads :
    /\ threads[r].termSent /\ threads[r].rc = TermCode
    /\ threads[r].pc = "done"
    /\ Cardinality(ResultLines(r)) = 1
    /\ FinishedPending(r) = {}

\* The child of the run has closed its output and exited
ChildEnded == 1 \in DOMAIN threads /\ threads[1].child = "exited"

\* run() has emitted the finished signal of the run and returned
WorkerEnded ==
  /\ 1 \in DOMAIN threads
  /\ threads[1].pc = "done"
  /\ FinishedPending(1) \cup ResultLines(1) # {}

\* packageFinished has handled the finished signal of the run
ButtonReleased == ~stopButton /\ ResultLines(1) # {}

\* C15: with the worker thread and the event loop scheduled, a child that
\* has closed its output and exited leads to the finished signal of the
\* worker and to the stop button disabled by packageFinished; as long as the
\* child runs the worker stays in its read loop, whatever the time elapsed.
C15_EndsAfterChild ==
  /\ ChildEnded ~> WorkerEnded
  /\ ChildEnded ~> ButtonReleased
  /\ [](\A r \in DOMAIN threads :
          threads[r].child = "running" => threads[r].pc = "read")

\* The child wrote a line and exited, the worker ended, the button is disabled
C15_Witness ==
  /\ ChildEnded /\ WorkerEnded /\ ButtonReleased
  /\ Len(threads[1].written) > 0
  /\ LogLines(1) = threads[1].written

\* C16: for a run whose child was ended by the terminate signal of stop(),
\* the finished signal and the result line report a failure with the status
\* of the signal, never a success, and the notice of the cancellation is in
\* the log above the result line.
C16_CancelledRunFails ==
  \A r \in DOMAIN threads :
    (threads[r].child = "exited" /\ threads[r].rc = TermCode) =>
      /\ \A i \in FinishedPending(r) :
           ~queue[i].success /\ queue[i].msg = FailedMsg(TermCode)
      /\ \A i \in ResultLines(r) :
           /\ logEdit[i].text = <<"failed">> /\ logEdit[i].code = TermCode
           /\ \E j \in 1..(i - 1) :
                logEdit[j].kind = "cancel" /\ logEdit[j].run = r

\* A run was cancelled while its child ran; the log ends with the failure
C16_Witness ==
  /\ logEdit # <<>>
  /\ logEdit[Len(logEdit)].kind = "result"
  /\ logEdit[Len(logEdit)].code = TermCode
  /\ infoBar.kind = "error" /\ infoBar.code = TermCode
  /\ \E j \in DOMAIN logEdit : logEdit[j].kind = "cancel"

\* --------------------------------------- properties: the progress bar
\* The percentages run() parses from the lines, in the order of the lines
ParsedValues(lines) ==
  LET Parsed(line) == /\ "%" \in Range(line)
                      /\ IsInt(LastToken(BeforePercent(line)))
      hits == SelectSeq(lines, Parsed) IN
  [i \in DOMAIN hits |-> IntOf(LastToken(BeforePercent(hits[i])))]

\* The last value of a sequence, or the value the bar was given at the start
LastOr0(values) == IF values = <<>> THEN 0 ELSE values[Len(values)]

\* The result line of run 1 reports a success
ReportedSuccess ==
  \E i \in ResultLines(1) : logEdit[i].text = <<"success">>

\* C20 as stated: when the result of the run is in the log, the bar is at
\* 100 after a success and at the last value parsed from the output (0, the
\* value of the start, when none was parsed) after a failure.
C20_BarAfterRun ==
  (threads # <<>> /\ ResultLines(1) # {}) =>
    progressBar = IF ReportedSuccess THEN 100
                  ELSE LastOr0(ParsedValues(threads[1].written))

\* C20, amended: startPackage sets the bar to 0 and leaves a worker that
\* has not begun run(); the bar stays within its range 0..100; when the
\* result of the run is in the log, the bar is at 100 after a success and,
\* after a failure, at the last parsed value that lies within 0..100 (0 when
\* there is none): a parsed value outside the range does not move the bar.
C20_BarWithinRange ==
  /\ [](progressBar \in 0..100)
  /\ []((threads # <<>> /\ ResultLines(1) # {}) =>
          progressBar =
            IF ReportedSuccess THEN 100
            ELSE LastOr0(SelectSeq(ParsedValues(threads[1].written),
                                   LAMBDA v : v \in 0..100)))
  /\ [][Len(threads') > Len(threads) =>
          /\ progressBar' = 0
          /\ threads'[Len(threads')].pc = "popen"
          /\ threads'[Len(threads')].child = "none"]_vars

\* A failed run whose output had the percentage 7 and then 150
C20_Witness ==
  /\ threads # <<>> /\ ResultLines(1) # {} /\ ~ReportedSuccess
  /\ threads[1].written = << <<"a", " ", "7", "%", "\n">>,
                             <<"1", "5", "0", "%", "\n">> >>
  /\ progressBar = 7

\* ------------------------------------- properties: the layout of a command
\* The fragments of the option groups, in the order of buildCommand
OptionFragments(f) ==
  AutoDownloadParts(f) \o CompilerParts(f) \o ConsoleParts(f)
  \o DisplayParts(f) \o OptimizeParts(f) \o OutputParts(f) \o PluginParts(f)
  \o CustomPluginParts(f) \o FollowParts(f) \o ExcludeParts(f)
  \o DataParts(f) \o AssetParts(f) \o WindowsParts(f)

\* The lines of a text without the blanks around them, blank lines dropped
ArgLines(text) ==
  LET lines == Split(text, "\n") IN
  SelectSeq([i \in DOMAIN lines |-> Strip(lines[i])], NonBlank)

\* C17: the command shown by the preview is the join with single blanks of
\* the interpreter path ('python' for an empty field), '-m', 'nuitka', one
\* of --standalone and --onefile, the fragments of the option groups in the
\* order of buildCommand, the non-blank lines of the extra arguments in
\* their order, and the script path at the end.
C17_CommandLayout ==
  dialog.open =>
    dialog.command =
      Join(<< (IF form.pythonEdit = <<>> THEN <<"python">> ELSE form.pythonEdit),
              <<"-m">>, <<"nuitka">>,
              (IF form.standaloneRadio THEN <<"--standalone">>
                                       ELSE <<"--onefile">>) >>
           \o OptionFragments(form)
           \o ArgLines(form.extraEdit)
           \o << form.fileEdit >>, <<" ">>)

\* The preview of a form with no interpreter path and with extra arguments on
\* two lines separated by a blank line
C17_Witness ==
  /\ dialog.open
  /\ form.pythonEdit = <<>>
  /\ form.extraEdit = <<"--lto=yes", "\n", " ", "\n", "-z">>
  /\ OptionFragments(form) # <<>>

\* The words of a command (what its blanks separate) that begin with one of
\* the flags, in their order
WordsWith(command, flags) ==
  LET at == {i \in DOMAIN command :
               command[i] \in flags /\ (i = 1 \/ command[i - 1] = " ")}
      EndOf(b) == CHOOSE e \in b..Len(command) :
                    /\ \A i \in b..e : command[i] # " "
                    /\ e = Len(command) \/ command[e + 1] = " " IN
  [k \in 1..Cardinality(at) |->
     LET b == CHOOSE x \in at : Cardinality({y \in at : y < x}) = k - 1 IN
     SubSeq(command, b, EndOf(b))]

\* C18: the command shown by the preview has one word that follows imports:
\* --nofollow-imports when the switch is off, whatever the include field;
\* --follow-import-to= and the include field without its blanks when the
\* switch is on and the field is not empty; --follow-imports when the
\* switch is on and the field is empty. (The --nofollow-import-to= words of
\* the exclude field belong to the next group of buildCommand.)
C18_OneFollowFragment ==
  dialog.open =>
    WordsWith(dialog.command,
              {"--nofollow-imports", "--follow-import-to=", "--follow-imports"})
      = << IF ~form.followImportsSwitch THEN <<"--nofollow-imports">>
           ELSE IF form.includeEdit # <<>>
           THEN <<"--follow-import-to=">>
                \o SelectSeq(form.includeEdit, LAMBDA c : c # " ")
           ELSE <<"--follow-imports">> >>

\* The preview of a form that follows imports to modules typed with a blank
C18_Witness ==
  /\ dialog.open
  /\ form.followImportsSwitch
  /\ form.includeEdit = <<"m", ",", " ", "k">>

RECURSIVE RowFragments(_)
\* One fragment for each row of the table with its include box checked
RowFragments(table) ==
  IF table = <<>> THEN <<>>
  ELSE LET row == Head(table) IN
       (IF row.enabled
        THEN << <<(IF row.type_text = "File" THEN "--include-data-files="
                                             ELSE "--include-data-dir=")>>
                \o row.source \o <<"=">> \o row.target >>
        ELSE <<>>)
       \o RowFragments(Tail(table))

Unreported == {r \in DOMAIN threads : threads[r] # Released /\ ~HasResult(r)}

\* C21 as stated: the stop button is enabled exactly from startPackage until
\* the finished signal of every run started has been handled, and it is
\* enabled whenever a worker is running.
C21_StopButtonWhileRunning ==
  /\ stopButton <=> Unreported # {}
  /\ Running # {} => stopButton

\* ------------------------------------------------- properties: the log
\* C22 as stated: every entry of the log belongs to the run for which
\* startPackage cleared the log last, the run of self.packageThread.
C22_LogOfOneRun ==
  \A i \in DOMAIN logEdit : logEdit[i].run = packageThread

\* --------------------------------------- properties: a load that fails
\* C23 as stated: a loadConfig that ends with the error InfoBar leaves every
\* widget of the form as it was before the load.
C23_FailedLoadKeepsForm ==
  [][(ops' = ops + 1 /\ infoBar' = LoadFailedBar) => form' = form]_vars

\* --------------------------------------- properties: the asset table
\* C24 as stated: no two rows of the asset table have the same source path.
C24_NoDuplicateSources ==
  \A i, j \in DOMAIN form.assetsTable :
    form.assetsTable[i].source = form.assetsTable[j].source => i = j

\* The path is below the folder
Below(path, folder) ==
  /\ Len(path) > Len(folder) + 1
  /\ SubSeq(path, 1, Len(folder) + 1) = folder \o <<"/">>

\* C25 as stated: when a folder that has no row yet is added, by the dialog
\* or by a drop, the rows added are one for the folder and one for each file
\* and folder below it that had no row, and the target of each row added for
\* a path below the folder is the target of the row of the folder, a '/' and
\* the path relative to the folder.
C25_TargetsBelowFolder ==
  [][\A folder \in FsFolders \cup DeepFolders :
       LET old == form.assetsTable
           new == form'.assetsTable
           Sources(t) == {t[i].source : i \in DOMAIN t}
           below == {q \in FsFiles \cup DeepFiles \cup DeepFolders :
                       Below(q, folder)} IN
       (/\ folder \notin Sources(old)
        /\ new = addAssetRecursive(old, folder, <<>>)) =>
         /\ SubSeq(new, 1, Len(old)) = old
         /\ {new[i].source : i \in (Len(old) + 1)..Len(new)}
              = ({folder} \cup below) \ Sources(old)
         /\ Len(new) - Len(old)
              = Cardinality(({folder} \cup below) \ Sources(old))
         /\ \A i, j \in (Len(old) + 1)..Len(new) :
              (new[i].source = folder /\ Below(new[j].source, folder)) =>
                new[j].target
                  = new[i].target \o <<"/">>
                    \o SubSeq(new[j].source, Len(folder) + 2,
                              Len(new[j].source))]_vars

\* ------------------------------ properties: the arguments of a command
\* command.split(' '): the pieces between the blanks of the command, empty
\* pieces kept
SplitAtBlanks(command) ==
  LET blanks == {i \in DOMAIN command : command[i] = " "}
      starts == {1} \cup {i + 1 : i \in blanks}
      EndOf(b) == IF \E i \in blanks : i >= b
                  THEN (CHOOSE i \in blanks :
                          i >= b /\ \A j \in blanks : j >= b => i <= j) - 1
                  ELSE Len(command) IN
  [k \in 1..Cardinality(starts) |->
     LET b == CHOOSE x \in starts :
                Cardinality({y \in starts : y < x}) = k - 1 IN
     SubSeq(command, b, EndOf(b))]

\* C26 as stated: the command shown by the preview, split at its blanks, is
\* the list of fragments buildCommand joined: every field value is one
\* argument.
C26_SplitGivesFragments ==
  dialog.open => SplitAtBlanks(dialog.command) = CmdParts(form)

\* C27 as stated: in the command shown by the preview, each of the flags
\* --follow-import-to=, --nofollow-import-to=, --enable-plugin=,
\* --include-data-files= and --include-data-dir= is followed by a value: the
\* command does not end with the flag and no blank follows it.
C27_ValuesNotEmpty ==
  dialog.open =>
    \A i \in DOMAIN dialog.command :
      dialog.command[i] \in {"--follow-import-to=", "--nofollow-import-to=",
                             "--enable-plugin=", "--include-data-files=",
                             "--include-data-dir="} =>
        i < Len(dialog.command) /\ dialog.command[i + 1] # " "

\* ------------------------------------------ properties: the compiler
\* C28: in the command and the environment shown by the preview, the
\* compiler chosen gives --mingw64, --clang or --msvc=latest in the command
\* and no CC, or CC set to the GCC path and no flag (local GCC with a path),
\* or neither (auto-detect, local GCC without a path): never two of them;
\* with a compiler other than local GCC the GCC path changes neither the
\* command nor the environment.
C28_OneCompilerChoice ==
  dialog.open =>
    LET flags == WordsWith(dialog.command,
                           {"--mingw64", "--clang", "--msvc=latest"})
        c == form.compilerCombo
        noPath == [form EXCEPT !.gccPathEdit = <<>>] IN
    /\ flags = IF c = "MinGW64" THEN << <<"--mingw64">> >>
               ELSE IF c = "Clang" THEN << <<"--clang">> >>
               ELSE IF c = "MSVC" THEN << <<"--msvc=latest">> >>
               ELSE <<>>
    /\ dialog.env.CC = IF c = "localGCC" THEN form.gccPathEdit ELSE <<>>
    /\ Len(flags) + (IF dialog.env.CC # <<>> THEN 1 ELSE 0) <= 1
    /\ dialog.command = buildCommand(noPath).text
    /\ c # "localGCC" =>
         \A found \in BOOLEAN :
           getEnvironment(form, found) = getEnvironment(noPath, found)

\* The preview of a form with local GCC chosen and a GCC path
C28_Witness ==
  /\ dialog.open
  /\ form.compilerCombo = "localGCC"
  /\ form.gccPathEdit # <<>>
  /\ dialog.env.CC = form.gccPathEdit

\* ---------------------------------- properties: the working directory
\* C29 as stated: the thread started is handed the directory part of the
\* script path of the form as its working directory, the preview shows the
\* directory part of the script path of the form, and Popen can start the
\* child in the directory every thread was handed.
C29_WorkingDirectory ==
  /\ [][Len(threads') > Len(threads) =>
          threads'[Len(threads')].cwd
            = [isNone |-> FALSE, path |-> Dirname(form.fileEdit)]]_vars
  /\ [](dialog.open => dialog.cwd = Dirname(form.fileEdit))
  /\ [](\A r \in DOMAIN threads :
          threads[r] # Released => ChdirWorks(threads[r].cwd))

=============================================================================
